---- MODULE Spec2Model ----
(***************************************************************************)
(* Streaming text-to-speech pipeline of yashkanttiwary/tts.                *)
(*                                                                         *)
(*   AudioEngine (src/services/AudioEngine.ts)   gapless playback scheduler*)
(*   useBookPlayer (src/hooks/useBookPlayer.ts)  pipeline coordinator      *)
(*   App key pool (src/App.tsx)                  credential pool           *)
(*   generateSpeechFromText (geminiService.ts)   synthesis client          *)
(*                                                                         *)
(* The specifications share the variables below:                           *)
(*   SpecEngine    the AudioEngine under arbitrary calls of its methods    *)
(*   SpecPool      the key pool under reads, uses and the passing of time  *)
(*   SpecPoolSkip  the key pool under uses and Skip Key                    *)
(*   SpecPlayer    the useBookPlayer hook driving the AudioEngine          *)
(*   SpecFetch     the hook on a text longer than its look-ahead           *)
(*   Spec          the App: handleGenerate / handleStop runs over the pool *)
(*   SpecRun       one run of handleGenerate over one key                  *)
(*   SpecClient    one call of generateSpeechFromText, with its failures   *)
(*   SpecWait      the wait computed from a rate limit error               *)
(*   SpecSplit     the text splitters of the workers, one loop pass a step *)
(*   SpecLedger    the key pool under reads, uses and Skip Key             *)
(*   SpecPlay      the hook when every fetch succeeds, no pause, no stop   *)
(*   SpecLimit     one call of the client, every request rate-limited      *)
(*                                                                         *)
(* Audio time (AudioContext.currentTime, seconds in the source) and the    *)
(* timers of the engine are counted in units of 100 ms.  Date.now() of the *)
(* key pool is counted in milliseconds.                                    *)
(***************************************************************************)
EXTENDS Integers, Sequences, FiniteSets, TLC

VARIABLES
  engine,       \* the AudioEngine object (fields below)
  wall,         \* wall clock of window.setTimeout, units of 100 ms
  player,       \* the useBookPlayer hook: React state, refs, messages in flight
  pool,         \* the key pool of App: apiKeysRef, requestHistoryRef, rpmLimit
  now,          \* Date.now(), ms
  app,          \* the App: status, abortController, runs of handleGenerate
  split         \* the text splitter of the worker: its locals and position

vars == <<engine, wall, player, pool, now, app, split>>

(***************************************************************************)
(* Bounds of the model.                                                    *)
(***************************************************************************)
MaxSessions == 2      \* sessions (start() calls) of the hook
NumChunks == 2        \* segments per session
MaxSources == 2       \* AudioBufferSourceNodes created per behaviour
MaxWall == 2          \* wall clock limit, units of 100 ms
MaxStops == 1         \* AudioEngine.stop() calls per behaviour

\* buffer.duration of the decoded audio of a segment, units of 100 ms: the
\* segments of a session are alternately 100 ms and 200 ms long
Duration(id) == 1 + (id[2] % 2)

FETCH_WINDOW == 3      \* look-ahead of the fetch effect of useBookPlayer

\* segments of a text that is longer than the look-ahead
LongText == FETCH_WINDOW + NumChunks

\* chunk ids: `chunk-${Date.now()}-${i}`, one stamp per session
ChunkIds == (1..MaxSessions) \X (0..(LongText - 1))
\* the ids the engine is driven with when it is exercised on its own
EngineIds == {<<1, 0>>, <<1, 1>>}

NoBuffer == 0 - 1     \* queue.get(id) of an id that is not in the Map
NoSource == 0         \* scheduledSources.get(id) of an id that is not in the Map

(***************************************************************************)
(* AudioEngine.  The object is a record; every method is an operator from  *)
(* the object (and its arguments) to the object after the call.            *)
(*   hasCtx            this.ctx !== null                                   *)
(*   suspended         this.ctx.state === 'suspended'                      *)
(*   currentTime       this.ctx.currentTime                                *)
(*   nextStartTime, queue, scheduledSources   the fields of the class      *)
(*   sources           every AudioBufferSourceNode created, in call order; *)
(*                     start/dur: source.start(start) and buffer.duration; *)
(*                     stopped: source.stop() was called; clockAt/cursorAt:*)
(*                     currentTime and nextStartTime when schedule was     *)
(*                     entered; epoch: number of stop() calls before it    *)
(*   timers            pending window.setTimeout callbacks                 *)
(*   stopCount         history: number of stop() calls                     *)
(*   inertIds          history: the ids that were in the queue at the last *)
(*                     stop(), until init() or resume() is called          *)
(* isPlaying is written by pause, resume and stop and read nowhere; it is  *)
(* left out.                                                               *)
(***************************************************************************)
SafetyLead == 1       \* "+ 0.1": 100 ms

NewEngine(ctx, susp) ==
  [ hasCtx |-> ctx, suspended |-> susp, currentTime |-> 0,
    nextStartTime |-> 0,
    queue |-> [id \in ChunkIds |-> NoBuffer],
    scheduledSources |-> [id \in ChunkIds |-> NoSource],
    sources |-> <<>>, timers |-> {},
    stopCount |-> 0, inertIds |-> {} ]

Engine_init(e) ==
  IF ~e.hasCtx THEN e
  ELSE [e EXCEPT !.suspended = FALSE, !.inertIds = {}]

Engine_enqueue(e, id, dur) ==
  IF ~e.hasCtx THEN e
  ELSE [e EXCEPT !.queue[id] = dur]

Engine_has(e, id) == e.queue[id] # NoBuffer

\* mutant: the cursor is also reset when the clock has only just reached it
Engine_startTime_ResetAtCursor(e) ==
  IF e.nextStartTime <= e.currentTime
    THEN e.currentTime + SafetyLead
    ELSE e.nextStartTime

\* mutant: the safety lead is kept in front of the clock always
Engine_startTime_Max(e) ==
  IF e.nextStartTime < e.currentTime + SafetyLead
    THEN e.currentTime + SafetyLead
    ELSE e.nextStartTime

\* the cursor schedule() binds the source at
Engine_startTime(e) ==
  IF e.nextStartTime < e.currentTime
    THEN e.currentTime + SafetyLead
    ELSE e.nextStartTime

\* mutant: the cursor is not advanced by the duration
Engine_advance_Stuck(startTime, dur) == startTime

\* the cursor after the source is bound
Engine_advance(startTime, dur) == startTime + dur

\* what schedule(id) returns
Engine_scheduleResult(e, id) == e.hasCtx /\ Engine_has(e, id)

Engine_schedule(e, id, w) ==
  IF ~Engine_scheduleResult(e, id) THEN e
  ELSE
    LET startTime == Engine_startTime(e)
        dur == e.queue[id]
        h == Len(e.sources) + 1
        delayUntilStart == startTime - e.currentTime
        source == [ id |-> id, start |-> startTime, dur |-> dur,
                    stopped |-> FALSE, clockAt |-> e.currentTime,
                    cursorAt |-> e.nextStartTime, epoch |-> e.stopCount ]
        startTimer == [ src |-> h, id |-> id, kind |-> "start",
                        due |-> w + delayUntilStart, seq |-> 2 * h - 1 ]
        endTimer == [ src |-> h, id |-> id, kind |-> "end",
                      due |-> w + delayUntilStart + dur, seq |-> 2 * h ]
    IN [e EXCEPT !.nextStartTime = Engine_advance(startTime, dur),
                 !.sources = Append(@, source),
                 !.scheduledSources[id] = h,
                 !.timers = @ \cup {startTimer, endTimer}]

Engine_pause(e) ==
  [e EXCEPT !.suspended = IF e.hasCtx THEN TRUE ELSE @]

Engine_resume(e) ==
  [e EXCEPT !.suspended = IF e.hasCtx THEN FALSE ELSE @,
            !.inertIds = {}]

\* the handles stop() reaches: the values of the scheduledSources Map
MappedSources(e) ==
  {e.scheduledSources[id] : id \in ChunkIds} \ {NoSource}

Engine_stop(e) ==
  IF ~e.hasCtx THEN e
  ELSE
    LET mapped == MappedSources(e)
    IN [e EXCEPT
          !.sources = [h \in DOMAIN e.sources |->
                         IF h \in mapped
                           THEN [e.sources[h] EXCEPT !.stopped = TRUE]
                           ELSE e.sources[h]],
          !.timers = {t \in e.timers : t.src \notin mapped},
          !.scheduledSources = [id \in ChunkIds |-> NoSource],
          !.nextStartTime = 0,
          !.stopCount = @ + 1,
          !.inertIds = {id \in ChunkIds : e.queue[id] # NoBuffer}]

Engine_prune(e, playedIds) ==
  [e EXCEPT !.queue = [id \in ChunkIds |->
                         IF id \in playedIds THEN NoBuffer ELSE e.queue[id]]]

Engine_clearQueue(e) ==
  [e EXCEPT !.queue = [id \in ChunkIds |-> NoBuffer]]

\* The audio clock runs with the wall clock unless the context is suspended.
Engine_tick(e) ==
  IF e.hasCtx /\ ~e.suspended
    THEN [e EXCEPT !.currentTime = @ + 1]
    ELSE e

\* window.setTimeout: the timer that fires next is the one due first, in
\* registration order among equals; a due timer fires before the clock moves.
NextTimer(e, w) ==
  {t \in e.timers :
     /\ t.due <= w
     /\ \A u \in e.timers :
          (u.due > t.due) \/ (u.due = t.due /\ u.seq >= t.seq)}

\* what the engine itself does when a timer fires, before the callback
Engine_fire(e, t) ==
  IF t.kind = "end"
    THEN [e EXCEPT !.timers = @ \ {t},
                   !.scheduledSources[t.id] = NoSource]
    ELSE [e EXCEPT !.timers = @ \ {t}]

\* a source that is bound to the clock and will still sound or is sounding
Live(e, h) ==
  /\ ~e.sources[h].stopped
  /\ e.currentTime < e.sources[h].start + e.sources[h].dur

(***************************************************************************)
(* Key pool of App (src/App.tsx, "SMART KEY POOL LOGIC").  The pool is a   *)
(* record:                                                                 *)
(*   apiKeys     apiKeysRef.current, the configured keys in order          *)
(*   history     requestHistoryRef.current: per key, the timestamps of its *)
(*               ledger in the order they were pushed                      *)
(*   rpmLimit    the rpmLimit state                                        *)
(*   activeKey   activeKeyRef.current                                      *)
(*   uses        history: every recordKeyUsage call, [key, at]             *)
(*   best        history: what the last getBestKey() returned, with the    *)
(*               time of the call (readAt) and the number of uses recorded *)
(*               before it (readUses)                                      *)
(*   picks       history: the recordUse(bestCredential()) steps: the key   *)
(*               used and the count and waitTime the read reported for     *)
(*               every key                                                 *)
(*   skipAt      history: per key, Date.now() of its last handleSkipKey    *)
(***************************************************************************)
RATE_WINDOW_MS == 60000
SafetyMarginMs == 1000    \* "+ 1000" of getKeyStatus

Keys == {"k1", "k2"}
NoKey == "none"           \* null

MaxRpmLimit == 2          \* rpmLimit is chosen in 1..MaxRpmLimit
MaxUses == 4              \* recordKeyUsage calls per behaviour
MaxNow == 120000          \* Date.now() limit

Max(a, b) == IF a >= b THEN a ELSE b

\* requestHistoryRef.current[key].filter(timestamp => now - timestamp < W)
InWindow(t, n) == n - t < RATE_WINDOW_MS

\* mutant: the read leaves the ledger as it is
FilterHistory_Keep(h, n) == h

FilterHistory(h, n) == SelectSeq(h, LAMBDA t : InWindow(t, n))

\* mutant: the limit itself is not yet saturation
Saturated_Strict(count, rpmLimit) == count > rpmLimit

\* count >= rpmLimit: the key is saturated
Saturated(count, rpmLimit) == count >= rpmLimit

\* getKeyStatus(key, now): the status it returns; h is the ledger of the key
getKeyStatus(key, n, h, rpmLimit) ==
  LET hist == FilterHistory(h, n)
      count == Len(hist)
      waitTime ==
        IF Saturated(count, rpmLimit)
          THEN Max(0, RATE_WINDOW_MS - (n - hist[1]) + SafetyMarginMs)
          ELSE 0
  IN [key |-> key, waitTime |-> waitTime, count |-> count]

\* mutant: the load does not break ties
CompareStatus_WaitOnly(a, b) == a.waitTime - b.waitTime

\* mutant: the load is compared before the wait time
CompareStatus_CountFirst(a, b) ==
  IF a.count # b.count
    THEN a.count - b.count
    ELSE a.waitTime - b.waitTime

\* the comparator of statuses.sort: a negative number when a sorts before b
CompareStatus(a, b) ==
  IF a.waitTime # b.waitTime
    THEN a.waitTime - b.waitTime
    ELSE a.count - b.count

\* Array.prototype.sort is stable: x goes behind every element that does not
\* sort after it
RECURSIVE InsertStatus(_, _)
InsertStatus(x, s) ==
  IF s = <<>> THEN <<x>>
  ELSE IF CompareStatus(s[1], x) <= 0
    THEN <<s[1]>> \o InsertStatus(x, Tail(s))
    ELSE <<x>> \o s

RECURSIVE SortStatuses(_)
SortStatuses(s) ==
  IF s = <<>> THEN <<>>
  ELSE InsertStatus(s[Len(s)], SortStatuses(SubSeq(s, 1, Len(s) - 1)))

\* keys.map(k => getKeyStatus(k, now))
KeyStatuses(p, n) ==
  [i \in 1..Len(p.apiKeys) |->
     getKeyStatus(p.apiKeys[i], n, p.history[p.apiKeys[i]], p.rpmLimit)]

NoStatus == [key |-> NoKey, waitTime |-> 0, count |-> 0]

\* getBestKey(): the value it returns (NoStatus for null)
getBestKey(p, n) ==
  IF Len(p.apiKeys) = 0 THEN NoStatus
  ELSE SortStatuses(KeyStatuses(p, n))[1]

\* getBestKey(): the pool it leaves: getKeyStatus has purged the ledger of
\* every configured key
PoolAfterRead(p, n) ==
  [p EXCEPT !.history =
     [k \in Keys |->
        IF \E i \in 1..Len(p.apiKeys) : p.apiKeys[i] = k
          THEN FilterHistory(p.history[k], n)
          ELSE p.history[k]],
            !.best = getBestKey(p, n),
            !.readAt = n,
            !.readUses = Len(p.uses)]

recordKeyUsage(p, key, n) ==
  [p EXCEPT !.history[key] = Append(@, n),
            !.uses = Append(@, [key |-> key, at |-> n])]

NoSkip == 0 - 1           \* skipAt of a key that was never skipped

NewPool(keys, rpm) ==
  [ apiKeys |-> keys, history |-> [k \in Keys |-> <<>>], rpmLimit |-> rpm,
    activeKey |-> NoKey, uses |-> <<>>, best |-> NoStatus,
    readAt |-> 0, readUses |-> 0, picks |-> <<>>,
    skipAt |-> [k \in Keys |-> NoSkip] ]

\* mutant: the skip fills the ledger to one below the limit
SkipFill_Short(rpmLimit) == rpmLimit - 1

\* the number of timestamps handleSkipKey pushes: i < rpmLimit + 1
SkipFill(rpmLimit) == rpmLimit + 1

\* handleSkipKey(): the ledger of the active key becomes SkipFill copies of
\* now; skipAt is history
handleSkipKey(p, n) ==
  IF p.activeKey = NoKey THEN p
  ELSE [p EXCEPT !.history[p.activeKey] =
                    [i \in 1..SkipFill(p.rpmLimit) |-> n],
                 !.skipAt[p.activeKey] = n]

(***************************************************************************)
(* App (src/App.tsx): handleGenerate / handleStop, and the synthesis       *)
(* client generateSpeechFromText (src/services/geminiService.ts, the       *)
(* variant that takes a key provider) that every run of handleGenerate     *)
(* calls once per segment.  The app is a record:                           *)
(*   status, error, processedChunks, activeKeyIndex, audioUrl   React state*)
(*   message           progressMessage, by kind of message                 *)
(*   abortController   the run whose controller is in the state (0: null)  *)
(*   aborted           per run: controller.signal.aborted                  *)
(*   pcmChunks         pcmChunksRef.current, <<run, segment>> per element  *)
(*   nRuns             handleGenerate calls so far                         *)
(*   failures          failing endpoint responses so far                   *)
(*   edits             history: handleSkipKey, handleSaveApiKeys and       *)
(*                     handleDisconnectApiKey calls so far                 *)
(*   runs              per call of handleGenerate, where it stands:        *)
(*       pc         "split" / "decode" / "export": awaiting the worker;    *)
(*                  "poll": awaiting the 200 ms timer of the pre-wait;     *)
(*                  "request": awaiting ai.models.generateContent;         *)
(*                  "cooldown" / "verify" / "backoff": awaiting a delay of *)
(*                  the client; "idle" before the call, "done" after it    *)
(*       i          the loop index of the segment loop                     *)
(*       attempt, hits   attempt and consecutiveRateLimitHits              *)
(*       remaining  the countdown index of the cool-down loop              *)
(*       wait       totalWaitTime of the last rate limit error             *)
(*       lastError  lastError of the client, by kind ("": undefined)       *)
(*       errorText  the message of lastError where it is modelled          *)
(*       due        Date.now() at which the delay awaited is over          *)
(*       polls      history: on-time firings of the timer of this pre-wait *)
(*       call       the synthesize call of segment i: "none", "active",    *)
(*                  "returned", "failed"                                   *)
(*       sent       history: requests sent by that call                    *)
(*       recorded   history: recordKeyUsage calls made by that call        *)
(* The live preview (audioContextRef, playChunkLive) is left out.          *)
(***************************************************************************)
MaxRuns == 2              \* handleGenerate calls per behaviour
MaxFailures == 1          \* failing requests (App) or fetches and decodes (hook)
MaxPolls == 1             \* on-time firings of the 200 ms timer per pre-wait

MAX_RETRIES == 5
BaseWaitMs == 10000       \* baseWaitTime when the error names no delay
SafetyPaddingMs == 5000
CountdownStepMs == 1000
VerifyDelayMs == 2000
PollDelayMs == 200

Runs == 1..MaxRuns
NoRun == 0

\* "retry in Ns" of a rate limit error, seconds; 0: the message names none
RetryHints == {0, 5}
\* Math.random() * 2000 under Math.ceil: the two ends of what it can add
JitterMs == {0, 2000}

NewRun ==
  [ pc |-> "idle", i |-> 0, attempt |-> 0, hits |-> 0, remaining |-> 0,
    wait |-> 0, lastError |-> "", errorText |-> <<>>, due |-> 0,
    polls |-> 0, call |-> "none",
    sent |-> 0, recorded |-> 0 ]

NewApp ==
  [ status |-> "IDLE", error |-> "", message |-> "", processedChunks |-> 0,
    activeKeyIndex |-> 0, audioUrl |-> NoRun, abortController |-> NoRun,
    aborted |-> [r \in Runs |-> FALSE], pcmChunks |-> <<>>,
    nRuns |-> 0, failures |-> 0, edits |-> 0,
    runs |-> [r \in Runs |-> NewRun] ]

CeilDiv(a, b) == (a + b - 1) \div b

\* The message of an error is a sequence of pieces of text: "retry in " is
\* the literal of the pattern /retry in (\d+(\.\d+)?)s/, "0" and "5" are
\* digits, "." and "s" themselves, "x" any other text.
MaxMsgLen == 5            \* pieces of a message

MsgPieces == {"retry in ", "0", "5", ".", "s", "x"}
Digits == {"0", "5"}
Messages == UNION {[1..n -> MsgPieces] : n \in 0..MaxMsgLen}

DigitValue(d) == IF d = "5" THEN 5 ELSE 0

\* \d+ from position i: the position after the longest run of digits
RECURSIVE ScanDigits(_, _)
ScanDigits(msg, i) ==
  IF i <= Len(msg) /\ msg[i] \in Digits THEN ScanDigits(msg, i + 1) ELSE i

\* the number written by the digits msg[i], ..., msg[j - 1]
RECURSIVE DigitsValue(_, _, _)
DigitsValue(msg, i, j) ==
  IF i >= j THEN 0
  ELSE DigitsValue(msg, i, j - 1) * 10 + DigitValue(msg[j - 1])

NoMatch == [found |-> FALSE, ms |-> 0]

\* the pattern tried at position p, and parseFloat(waitTimeMatch[1]) * 1000
\* of its match (exact for up to three decimals)
MatchAt(msg, p) ==
  IF msg[p] # "retry in " THEN NoMatch
  ELSE LET a == ScanDigits(msg, p + 1)
           b == IF a <= Len(msg) /\ msg[a] = "."
                  THEN ScanDigits(msg, a + 1) ELSE a
       IN IF a = p + 1 THEN NoMatch
          ELSE IF b > a + 1 /\ b <= Len(msg) /\ msg[b] = "s"
            THEN [found |-> TRUE,
                  ms |-> DigitsValue(msg, p + 1, a) * 1000
                         + (DigitsValue(msg, a + 1, b) * 1000)
                             \div (10 ^ (b - a - 1))]
          ELSE IF a <= Len(msg) /\ msg[a] = "s"
            THEN [found |-> TRUE, ms |-> DigitsValue(msg, p + 1, a) * 1000]
          ELSE NoMatch

\* error.message?.match(...): the leftmost match from position p on
RECURSIVE FirstMatch(_, _)
FirstMatch(msg, p) ==
  IF p > Len(msg) THEN NoMatch
  ELSE IF MatchAt(msg, p).found THEN MatchAt(msg, p)
  ELSE FirstMatch(msg, p + 1)

\* baseWaitTime
BaseWaitTime(msg) ==
  IF FirstMatch(msg, 1).found THEN FirstMatch(msg, 1).ms ELSE BaseWaitMs

\* Math.random() * 2000 in tenths of a millisecond: the least values and the
\* greatest
JitterTenths == {0, 1, 19999}

\* mutant: the padding of 10% is left out
PaddedTenths_NoPercent(base, jt) == 10 * base + 10 * SafetyPaddingMs + jt

\* baseWaitTime + safetyPadding + percentagePadding + jitter, in tenths of a
\* millisecond
PaddedTenths(base, jt) == 10 * base + 10 * SafetyPaddingMs + base + jt

\* Math.ceil(...) of it: totalWaitTime before the penalty
PaddedWait(base, jt) == CeilDiv(PaddedTenths(base, jt), 10)

\* if (consecutiveRateLimitHits > 1) totalWaitTime = totalWaitTime * 2
Penalized(total, hits) == IF hits > 1 THEN total * 2 ELSE total

\* totalWaitTime of a rate limit error with the given hint, jitter and
\* number of consecutive hits; the hint and the jitter are whole numbers here
TotalWaitTime(hint, jitter, hits) ==
  LET base == IF hint > 0 THEN hint * 1000 ELSE BaseWaitMs
  IN Penalized(PaddedWait(base, 10 * jitter), hits)

\* apiKeysRef.current.indexOf(key) + 1
KeyIndex(p, key) ==
  IF \E j \in 1..Len(p.apiKeys) : p.apiKeys[j] = key
    THEN CHOOSE j \in 1..Len(p.apiKeys) :
           /\ p.apiKeys[j] = key
           /\ \A k \in 1..(j - 1) : p.apiKeys[k] # key
    ELSE 0

\* The operators below take the pair S = [app, pool] and the run r and give
\* the pair after the synchronous code up to the next await of the run.

\* catch and finally of handleGenerate
Run_throw(S, r, cancelled, err) ==
  [S EXCEPT !.app.status = IF cancelled THEN "IDLE" ELSE "ERROR",
            !.app.message = IF cancelled THEN "StoppedByUser" ELSE "",
            !.app.error = IF cancelled THEN @ ELSE err,
            !.app.activeKeyIndex = 0,
            !.app.abortController = NoRun,
            !.app.runs[r].pc = "done",
            !.app.runs[r].call =
               IF @ = "active" THEN "failed" ELSE @]

\* dynamicKeyProvider() throws "No keys available"
Provider_throws(S, n) == getBestKey(S.pool, n).key = NoKey

\* dynamicKeyProvider(peek) when it does not throw
dynamicKeyProvider(S, r, n, peek) ==
  LET p1 == PoolAfterRead(S.pool, n)
      best == p1.best
      changed == p1.activeKey # best.key
      p2 == IF changed THEN [p1 EXCEPT !.activeKey = best.key] ELSE p1
  IN IF peek THEN [S EXCEPT !.pool = p1]
     ELSE [S EXCEPT !.pool = recordKeyUsage(p2, best.key, n),
                    !.app.activeKeyIndex =
                       IF changed THEN KeyIndex(p1, best.key) ELSE @,
                    !.app.runs[r].recorded = @ + 1]

\* mutant: the key of the previous attempt is kept while there is one
resolveKey_Cached(S, r, n) ==
  IF S.pool.activeKey # NoKey
    THEN [S EXCEPT !.pool = recordKeyUsage(@, S.pool.activeKey, n),
                   !.app.runs[r].recorded = @ + 1]
    ELSE dynamicKeyProvider(S, r, n, FALSE)

\* resolveKey(apiKeyOrProvider): the provider is called without an argument
resolveKey(S, r, n) == dynamicKeyProvider(S, r, n, FALSE)

\* mutant: the backoff grows by one second per attempt
BackoffMs_Linear(attempt) == 1000 * attempt

\* const backoff = 1000 * Math.pow(2, attempt)
BackoffMs(attempt) == 1000 * (2 ^ attempt)

\* if (attempt < MAX_RETRIES)
MayRetry(attempt) == attempt < MAX_RETRIES

\* standard error handling of the client for an error that is neither a rate
\* limit nor a client error
Client_retryOrGiveUp(S, r, n, err) ==
  LET S1 == [S EXCEPT !.app.runs[r].lastError = err]
  IN IF MayRetry(S.app.runs[r].attempt)
       THEN [S1 EXCEPT !.app.runs[r].pc = "backoff",
                       !.app.runs[r].due =
                          n + BackoffMs(S.app.runs[r].attempt)]
       ELSE Run_throw(S1, r, FALSE, err)

\* mutant: a client error is retried like any other error
Client_onClientError_Retry(S, r, n) == Client_retryOrGiveUp(S, r, n, "Client")

\* "Don't retry client errors": break, then the throw after the loop
Client_onClientError(S, r, n) ==
  Run_throw([S EXCEPT !.app.runs[r].lastError = "Client"], r, FALSE, "Client")

\* the rate limit branch of the catch block up to its first await delay(1000)
Client_onRateLimit(S, r, n, hint, jitter) ==
  LET hits == S.app.runs[r].hits + 1
      total == TotalWaitTime(hint, jitter, hits)
  IN [S EXCEPT !.app.runs[r].lastError = "RateLimit",
               !.app.runs[r].hits = hits,
               !.app.runs[r].wait = total,
               !.app.runs[r].remaining = CeilDiv(total, CountdownStepMs),
               !.app.runs[r].due = n + CountdownStepMs,
               !.app.runs[r].pc = "cooldown",
               !.app.message = "RateLimit"]

\* one await delay(1000) of the countdown is over
Client_countdownStep(S, r, n) ==
  IF S.app.runs[r].remaining - 1 > 0
    THEN [S EXCEPT !.app.runs[r].remaining = @ - 1,
                   !.app.runs[r].due = n + CountdownStepMs,
                   !.app.message = "RateLimit"]
    ELSE [S EXCEPT !.app.runs[r].remaining = 0,
                   !.app.runs[r].pc = "verify",
                   !.app.runs[r].due = n + VerifyDelayMs,
                   !.app.message = "Verifying"]

\* one pass of the while (true) loop of the client up to its await
Client_attempt(S, r, n) ==
  IF Provider_throws(S, n)
    THEN Client_retryOrGiveUp(S, r, n, "NoKeys")
    ELSE LET S1 == resolveKey(S, r, n)
         IN [S1 EXCEPT !.app.runs[r].attempt = @ + 1,
                       !.app.runs[r].sent = @ + 1,
                       !.app.runs[r].pc = "request"]

\* generateSpeechFromText(config, dynamicKeyProvider, onStatusUpdate): the
\* initial check, then the first pass of the loop
generateSpeechFromText(S, r, n) ==
  LET S0 == [S EXCEPT !.app.runs[r].call = "active",
                      !.app.runs[r].sent = 0,
                      !.app.runs[r].recorded = 0,
                      !.app.runs[r].attempt = 0,
                      !.app.runs[r].hits = 0,
                      !.app.runs[r].lastError = ""]
  IN IF Provider_throws(S0, n)
       THEN Run_throw(S0, r, FALSE, "NoKeys")
       ELSE Client_attempt(resolveKey(S0, r, n), r, n)

\* mutant: the segment is requested without waiting for a free key
Run_preWait_NoWait(S, r, n) ==
  generateSpeechFromText([S EXCEPT !.app.message = "Rendering"], r, n)

\* while (bestKeyData && bestKeyData.waitTime > 0): S.pool.best is
\* bestKeyData
Run_preWait(S, r, n) ==
  IF S.pool.best.key # NoKey /\ S.pool.best.waitTime > 0
    THEN IF S.app.aborted[r]
           THEN Run_throw(S, r, TRUE, "")
           ELSE [S EXCEPT !.app.message = "Cooling",
                          !.app.runs[r].pc = "poll",
                          !.app.runs[r].due = n + PollDelayMs]
    ELSE generateSpeechFromText([S EXCEPT !.app.message = "Rendering"], r, n)

\* the head of the segment loop, and what follows the loop
Run_loop(S, r, n) ==
  IF S.app.runs[r].i >= NumChunks
    THEN [S EXCEPT !.app.message = "Finalizing",
                   !.app.runs[r].pc = "export"]
  ELSE IF S.app.aborted[r]
    THEN Run_throw(S, r, TRUE, "")
  ELSE Run_preWait([S EXCEPT !.pool = PoolAfterRead(@, n),
                             !.app.runs[r].polls = 0], r, n)

\* The delays the runs await are timers on one clock: the timer that is due
\* first fires first, and none fires before it is due.
Delaying(a, r) == a.runs[r].pc \in {"poll", "cooldown", "verify", "backoff"}

DueFirst(a, r) ==
  /\ Delaying(a, r)
  /\ \A q \in Runs : Delaying(a, q) => a.runs[r].due <= a.runs[q].due

\* when the timer of run r fires
FireTime(a, r, n) == Max(n, a.runs[r].due)

\* setTimeout(r, 200) of the pre-wait fires when it is due, or late: the late
\* timer modelled is the one that fires at the first multiple of 200 ms at
\* which the wait the pool reports is over.  After MaxPolls on-time firings
\* the next one is late.
PollFireTimes(a, p, r, n) ==
  LET t == FireTime(a, r, n)
      late == t + PollDelayMs * CeilDiv(getBestKey(p, t).waitTime, PollDelayMs)
  IN IF a.runs[r].polls < MaxPolls THEN {t, late} ELSE {late}

(***************************************************************************)
(* useBookPlayer (src/hooks/useBookPlayer.ts).  The hook is a record:      *)
(*   chunks, status, currentChunkId, error   the React state; a chunk is   *)
(*                     [id, status, error]                                 *)
(*   playQueue, isFetching, rawPcm   playQueueRef, isFetchingRef and the   *)
(*                     keys of rawPcmStorageRef                            *)
(*   worker            the messages posted to the worker and not answered  *)
(*                     yet, in order                                       *)
(*   fetches           the chunk ids whose generateSpeechFromText call of  *)
(*                     triggerFetch has not settled                        *)
(*   pending           the start() and resume() calls that await           *)
(*                     engine.init() on a suspended context, in call       *)
(*                     order, each with the state its closure saw          *)
(*   starts, sessions  history: start() calls, SPLIT_COMPLETE messages     *)
(*   clicks, failures  history: calls of the actions, failed fetches or    *)
(*                     decodes                                             *)
(*   handed            history: the ids passed to engine.schedule(), each  *)
(*                     once, in the order of their first call              *)
(* The callbacks of the engine and the worker are installed by effects     *)
(* with an empty dependency list: the scheduleNext they call is the one of *)
(* the first render, which sees the state of the first render (Closure0).  *)
(***************************************************************************)
MaxClicks == 3            \* start / pause / resume / stop calls per behaviour

NoChunk == <<0, 0>>       \* currentChunkId === null

NewPlayer ==
  [ chunks |-> <<>>, status |-> "IDLE", currentChunkId |-> NoChunk,
    error |-> "", playQueue |-> <<>>, isFetching |-> FALSE, rawPcm |-> {},
    worker |-> <<>>, fetches |-> {}, pending |-> <<>>,
    starts |-> 0, sessions |-> 0, clicks |-> 0, failures |-> 0,
    handed |-> <<>> ]

\* the state a render of the hook closes over
Closure(p) ==
  [chunks |-> p.chunks, status |-> p.status,
   currentChunkId |-> p.currentChunkId]

\* the closure of the first render
Closure0 == [chunks |-> <<>>, status |-> "IDLE", currentChunkId |-> NoChunk]

\* array.indexOf, counted from 1 (as findIndex below); 0 when there is none
IndexOfId(q, id) ==
  IF \E j \in 1..Len(q) : q[j] = id
    THEN CHOOSE j \in 1..Len(q) :
           q[j] = id /\ \A k \in 1..(j - 1) : q[k] # id
    ELSE 0

\* chunks.findIndex(c => c.status === st)
FindStatus(chunks, st) ==
  IF \E j \in 1..Len(chunks) : chunks[j].status = st
    THEN CHOOSE j \in 1..Len(chunks) :
           /\ chunks[j].status = st
           /\ \A k \in 1..(j - 1) : chunks[k].status # st
    ELSE 0

\* chunks.findIndex(c => c.id === id)
FindId(chunks, id) ==
  IF \E j \in 1..Len(chunks) : chunks[j].id = id
    THEN CHOOSE j \in 1..Len(chunks) :
           /\ chunks[j].id = id
           /\ \A k \in 1..(j - 1) : chunks[k].id # id
    ELSE 0

\* prev.map(c => c.id === id ? { ...c, status } : c)
SetChunkStatus(chunks, id, st, err) ==
  [j \in 1..Len(chunks) |->
     IF chunks[j].id = id
       THEN [chunks[j] EXCEPT !.status = st, !.error = err]
       ELSE chunks[j]]

\* const chunk = chunks.find(c => c.id === id); chunk && chunk.status === 'ready'
ChunkReady(chunks, id) ==
  \E j \in 1..Len(chunks) : chunks[j].id = id /\ chunks[j].status = "ready"

\* mutant: the loop of scheduleNext skips a chunk that is not ready
LoopGoesOn_Skip(ready) == TRUE

\* the loop of scheduleNext goes on to the next id only behind a ready chunk
LoopGoesOn(ready) == ready

NoteHanded(h, id) ==
  IF \E j \in 1..Len(h) : h[j] = id THEN h ELSE Append(h, id)

\* the for loop of scheduleNext from index i (counted from 1); X is the
\* pair [engine, handed]
RECURSIVE ScheduleLoop(_, _, _, _, _)
ScheduleLoop(X, pq, cl, w, i) ==
  IF i > Len(pq) THEN X
  ELSE LET id == pq[i]
           ready == ChunkReady(cl.chunks, id)
           X1 == IF ready
                   THEN [engine |-> Engine_schedule(X.engine, id, w),
                         handed |-> NoteHanded(X.handed, id)]
                   ELSE X
       IN IF LoopGoesOn(ready)
            THEN ScheduleLoop(X1, pq, cl, w, i + 1)
            ELSE X1

\* scheduleNext() of the render with closure cl
scheduleNext(X, pq, cl, w) ==
  IF cl.status = "PAUSED" THEN X
  ELSE LET startIdx == IF cl.currentChunkId # NoChunk
                         THEN IndexOfId(pq, cl.currentChunkId) + 1
                         ELSE 1
       IN ScheduleLoop(X, pq, cl, w, startIdx)

\* triggerFetch(chunk) up to its await
triggerFetch(p, id) ==
  [p EXCEPT !.isFetching = TRUE,
            !.chunks = SetChunkStatus(@, id, "generating", ""),
            !.fetches = @ \cup {id}]

\* the effect "Buffer Management / Fetch Loop" on the state of a render
FetchEffect(p) ==
  LET pendingIdx == FindStatus(p.chunks, "pending")
      currentPlayIdx == FindId(p.chunks, p.currentChunkId)
  IN IF p.status # "PROCESSING" /\ p.status # "PLAYING" THEN p
     ELSE IF p.isFetching THEN p
     ELSE IF pendingIdx = 0 THEN p
     ELSE IF currentPlayIdx # 0 /\ pendingIdx > currentPlayIdx + FETCH_WINDOW
       THEN p
     ELSE triggerFetch(p, p.chunks[pendingIdx].id)

\* The render that follows a handler: the effect runs when one of its
\* dependencies [chunks, status, currentChunkId] is a new value; chunksSet
\* says that the handler called setChunks, which always makes a new array.
AfterRender(old, new, chunksSet) ==
  IF chunksSet \/ Closure(new) # Closure(old)
    THEN FetchEffect(new)
    ELSE new

\* The handlers below take and give the pair H = [player, engine].

\* start(text, voice, instruction) behind await engineRef.current?.init()
Player_start(H) ==
  LET e == Engine_clearQueue(Engine_stop(Engine_init(H.engine)))
      p == [H.player EXCEPT !.rawPcm = {}, !.error = "",
                            !.currentChunkId = NoChunk,
                            !.status = "PREPARING",
                            !.worker = Append(@, [type |-> "SPLIT_TEXT",
                                                  id |-> NoChunk])]
  IN [player |-> AfterRender(H.player, p, FALSE), engine |-> e]

\* resume() behind await engineRef.current?.init(); cl is the closure of
\* the render in which resume was called
Player_resume(H, cl, w) ==
  LET e == Engine_resume(Engine_init(H.engine))
      X == scheduleNext([engine |-> e, handed |-> H.player.handed],
                        H.player.playQueue, cl, w)
      p == [H.player EXCEPT !.status = "PLAYING", !.handed = X.handed]
  IN [player |-> AfterRender(H.player, p, FALSE), engine |-> X.engine]

\* pause()
Player_pause(H) ==
  LET p == [H.player EXCEPT !.status = "PAUSED"]
  IN [player |-> AfterRender(H.player, p, FALSE),
      engine |-> Engine_pause(H.engine)]

\* stop()
Player_stop(H) ==
  LET p == [H.player EXCEPT !.status = "IDLE", !.currentChunkId = NoChunk]
  IN [player |-> AfterRender(H.player, p, FALSE),
      engine |-> Engine_stop(H.engine)]

\* worker.onmessage, SPLIT_COMPLETE
Player_onSplitComplete(H, n) ==
  LET s == H.player.sessions + 1
      metadata == [j \in 1..n |->
                     [id |-> <<s, j - 1>>, status |-> "pending",
                      error |-> ""]]
      p == [H.player EXCEPT !.chunks = metadata,
                            !.playQueue = [j \in 1..n |-> <<s, j - 1>>],
                            !.status = "PROCESSING",
                            !.sessions = s,
                            !.worker = Tail(@)]
  IN [player |-> AfterRender(H.player, p, TRUE), engine |-> H.engine]

\* worker.onmessage, DECODE_COMPLETE
Player_onDecodeComplete(H, id, w) ==
  LET e == Engine_enqueue(H.engine, id, Duration(id))
      X == scheduleNext([engine |-> e, handed |-> H.player.handed],
                        H.player.playQueue, Closure0, w)
      p == [H.player EXCEPT !.rawPcm = @ \cup {id},
                            !.chunks = SetChunkStatus(@, id, "ready", ""),
                            !.handed = X.handed,
                            !.isFetching = FALSE,
                            !.worker = Tail(@)]
  IN [player |-> AfterRender(H.player, p, TRUE), engine |-> X.engine]

\* worker.onmessage, ERROR
Player_onWorkerError(H) ==
  LET p == [H.player EXCEPT !.error = "Worker", !.status = "ERROR",
                            !.isFetching = FALSE,
                            !.failures = @ + 1,
                            !.worker = Tail(@)]
  IN [player |-> AfterRender(H.player, p, FALSE), engine |-> H.engine]

\* triggerFetch behind its await, the call returned audio
Player_onFetched(H, id) ==
  [player |-> [H.player EXCEPT !.fetches = @ \ {id},
                               !.worker = Append(@, [type |-> "DECODE_AUDIO",
                                                     id |-> id])],
   engine |-> H.engine]

\* mutant: the catch of triggerFetch marks the chunk and goes on
Player_onFetchError_GoOn(H, id, apiKeyError) ==
  LET p == [H.player EXCEPT
              !.fetches = @ \ {id},
              !.chunks = SetChunkStatus(@, id, "error",
                           IF apiKeyError THEN "API Key" ELSE "Failed"),
              !.isFetching = FALSE,
              !.failures = @ + 1]
  IN [player |-> AfterRender(H.player, p, TRUE), engine |-> H.engine]

\* triggerFetch behind its await, the call threw
Player_onFetchError(H, id, apiKeyError) ==
  LET p == [H.player EXCEPT
              !.fetches = @ \ {id},
              !.chunks = SetChunkStatus(@, id, "error",
                           IF apiKeyError THEN "API Key" ELSE "Failed"),
              !.isFetching = FALSE,
              !.status = "PAUSED",
              !.error = IF apiKeyError THEN "API Key Error" ELSE @,
              !.failures = @ + 1]
  IN [player |-> AfterRender(H.player, p, TRUE), engine |-> H.engine]

\* engine.onChunkStart(id)
Player_onChunkStart(H, id) ==
  LET p == [H.player EXCEPT
              !.currentChunkId = id,
              !.chunks = [j \in 1..Len(@) |->
                            IF @[j].id = id
                              THEN [@[j] EXCEPT !.status = "playing"]
                            ELSE IF @[j].status = "playing"
                              THEN [@[j] EXCEPT !.status = "played"]
                            ELSE @[j]]]
  IN [player |-> AfterRender(H.player, p, TRUE), engine |-> H.engine]

\* engine.onChunkEnd(id)
Player_onChunkEnd(H, id, w) ==
  LET X == scheduleNext([engine |-> H.engine, handed |-> H.player.handed],
                        H.player.playQueue, Closure0, w)
  IN [player |-> [H.player EXCEPT !.handed = X.handed],
      engine |-> Engine_prune(X.engine, {id})]

(***************************************************************************)
(* Text splitting of the workers: splitTextRobust (src/unnamed/part_009,   *)
(* the worker of the hook), splitTextIdeally (src/workers/audioWorker.ts,  *)
(* the worker of the App) and the older splitTextIdeally that runs on the  *)
(* main thread (src/unnamed/part_007).  A string is a sequence of          *)
(* characters; the indexes of the operators are those of the source,       *)
(* counted from 0.  The splitter is a record:                              *)
(*   fn           which of the three functions runs                        *)
(*   text, maxLength   its arguments                                       *)
(*   currentText  the local `remaining` / `currentText`                    *)
(*   chunks       the local `chunks`; the returned array once pc is "done" *)
(*   splitIndex   the cut of the last loop pass, found the index before    *)
(*                the fallback                                             *)
(*   pc           "idle", "entry" (called), "loop" (at the loop test),     *)
(*                "done" (returned)                                        *)
(***************************************************************************)
MaxTextLen == 5           \* characters of a text
MaxChunkLen == 4          \* largest maxLength

Whitespace == {" ", "\n"}

SentenceEnd == {".", "!", "?"}

Min(a, b) == IF a < b THEN a ELSE b

SetMax(S) == CHOOSE x \in S : \A y \in S : y <= x

\* s[i]; out of range gives undefined, which equals no character
CharAt(s, i) == IF i >= 0 /\ i < Len(s) THEN s[i + 1] ELSE "undefined"

\* s.substring(a, b)
Substring(s, a, b) ==
  LET x == Max(0, Min(a, Len(s)))
      y == Max(0, Min(b, Len(s)))
  IN SubSeq(s, Min(x, y) + 1, Max(x, y))

\* s.trim()
Trim(s) ==
  LET inner == {j \in 1..Len(s) : s[j] \notin Whitespace}
  IN IF inner = {} THEN <<>>
     ELSE SubSeq(s, CHOOSE j \in inner : \A k \in inner : j <= k,
                    SetMax(inner))

\* s.lastIndexOf(pat, from)
LastIndexOf(s, pat, from) ==
  LET at == {i \in 0..Min(from, Len(s) - Len(pat)) :
               Substring(s, i, i + Len(pat)) = pat}
  IN IF at = {} THEN 0 - 1 ELSE SetMax(at)

\* candidate > maxLength * 0.3
AboveFloor(candidate, maxLength) == 10 * candidate > 3 * maxLength

\* the indexes of the matches of /[.!?]\s/g in the buffer
SentenceMatches(buf) ==
  {i \in 0..(Len(buf) - 2) :
     CharAt(buf, i) \in SentenceEnd /\ CharAt(buf, i + 1) \in Whitespace}

\* splitTextRobust: the split index of priorities 1 to 4
Robust_findSplit(remaining, maxLength) ==
  LET searchBuffer == Substring(remaining, 0, maxLength)
      paragraph == LastIndexOf(searchBuffer, <<"\n", "\n">>, maxLength)
      good == {i \in SentenceMatches(searchBuffer) : AboveFloor(i, maxLength)}
      clause == Max(LastIndexOf(searchBuffer, <<",", " ">>, maxLength),
                    LastIndexOf(searchBuffer, <<";", " ">>, maxLength))
  IN IF AboveFloor(paragraph, maxLength) THEN paragraph + 2
     ELSE IF good # {} THEN SetMax(good) + 2
     ELSE IF AboveFloor(clause, maxLength) THEN clause + 2
     ELSE LastIndexOf(searchBuffer, <<" ">>, maxLength)

sentenceEndings ==
  {<<".", " ">>, <<"!", " ">>, <<"?", " ">>,
   <<".", "\n">>, <<"!", "\n">>, <<"?", "\n">>,
   <<".", "\"", " ">>, <<"!", "\"", " ">>, <<"?", "\"", " ">>}

\* for (let i = maxLength; i > maxLength * 0.8; i--)
ScanRange(maxLength) == {i \in 1..maxLength : 10 * i > 8 * maxLength}

ParagraphAt(currentText, i) ==
  CharAt(currentText, i) = "\n" /\ CharAt(currentText, i - 1) = "\n"

SentenceAt(currentText, i) ==
  \E end \in sentenceEndings :
    Substring(currentText, i - 1, i + Len(end) - 1) = end

\* splitTextIdeally: the smart split attempt, then the fallback to a space
Ideally_findSplit(currentText, maxLength) ==
  LET hits == {i \in ScanRange(maxLength) :
                 ParagraphAt(currentText, i) \/ SentenceAt(currentText, i)}
      i == SetMax(hits)
  IN IF hits # {}
       THEN IF ParagraphAt(currentText, i) THEN i ELSE i + 1
       ELSE LastIndexOf(currentText, <<" ">>, maxLength)

\* if (splitIndex === -1 || splitIndex === 0) splitIndex = maxLength
HardCut(splitIndex, maxLength) ==
  IF splitIndex = 0 - 1 \/ splitIndex = 0 THEN maxLength ELSE splitIndex

\* part_007: if (splitIndex === -1) splitIndex = maxLength
HardCut_Main(splitIndex, maxLength) ==
  IF splitIndex = 0 - 1 THEN maxLength ELSE splitIndex

\* mutant: the character at the cut is dropped with the break
RestAfter_DropOne(currentText, splitIndex) ==
  Trim(Substring(currentText, splitIndex + 1, Len(currentText)))

\* currentText.substring(splitIndex).trim()
RestAfter(currentText, splitIndex) ==
  Trim(Substring(currentText, splitIndex, Len(currentText)))

\* chunks.filter(c => c.length > 0)
FilterEmpty(chunks) == SelectSeq(chunks, LAMBDA c : Len(c) > 0)

NoSplit ==
  [ fn |-> "none", text |-> <<>>, maxLength |-> 1, currentText |-> <<>>,
    chunks |-> <<>>, splitIndex |-> 0, found |-> 0, pc |-> "idle" ]

\* the call: the early return, or the entry of the loop
Split_enter(j) ==
  IF Len(j.text) <= j.maxLength
    THEN [j EXCEPT !.chunks = <<j.text>>, !.pc = "done"]
    ELSE [j EXCEPT !.currentText = j.text, !.pc = "loop"]

\* the return behind the loop
Split_return(j) ==
  [j EXCEPT !.chunks = IF j.fn = "splitTextRobust" THEN FilterEmpty(@) ELSE @,
            !.pc = "done"]

\* one pass of the while loop, and the loop test or the return behind it
Split_pass(j) ==
  LET cur == j.currentText
      found == IF j.fn = "splitTextRobust"
                 THEN Robust_findSplit(cur, j.maxLength)
                 ELSE Ideally_findSplit(cur, j.maxLength)
      splitIndex == IF j.fn = "splitTextIdeally_Main"
                      THEN HardCut_Main(found, j.maxLength)
                      ELSE HardCut(found, j.maxLength)
      rest == RestAfter(cur, splitIndex)
      cut == [j EXCEPT !.chunks = Append(@, Trim(Substring(cur, 0, splitIndex))),
                       !.currentText = rest,
                       !.found = found,
                       !.splitIndex = splitIndex]
  IN IF Len(cur) <= j.maxLength
       THEN Split_return(
              [j EXCEPT !.chunks = Append(@, IF j.fn = "splitTextRobust"
                                               THEN Trim(cur) ELSE cur)])
     ELSE IF Len(rest) > 0 THEN cut
     ELSE Split_return(cut)

(***************************************************************************)
(* SpecEngine: the AudioEngine on its own, its methods called in any order *)
(* by a caller that installs no callbacks, while the clocks advance and    *)
(* the timers fire.                                                        *)
(***************************************************************************)
othersE == <<player, pool, now, app, split>>

InitEngine ==
  /\ \E ctx \in BOOLEAN, susp \in BOOLEAN : engine = NewEngine(ctx, susp)
  /\ wall = 0
  /\ player = NewPlayer
  /\ split = NoSplit
  /\ pool = NewPool(<<>>, 1)
  /\ now = 0
  /\ app = NewApp

E_init ==
  /\ engine' = Engine_init(engine)
  /\ UNCHANGED <<wall, othersE>>

E_enqueue ==
  \E id \in EngineIds :
    /\ engine' = Engine_enqueue(engine, id, Duration(id))
    /\ UNCHANGED <<wall, othersE>>

E_schedule ==
  \E id \in EngineIds :
    /\ Len(engine.sources) < MaxSources
    /\ engine' = Engine_schedule(engine, id, wall)
    /\ UNCHANGED <<wall, othersE>>

E_pause ==
  /\ engine' = Engine_pause(engine)
  /\ UNCHANGED <<wall, othersE>>

E_resume ==
  /\ engine' = Engine_resume(engine)
  /\ UNCHANGED <<wall, othersE>>

E_stop ==
  /\ engine.stopCount < MaxStops
  /\ engine' = Engine_stop(engine)
  /\ UNCHANGED <<wall, othersE>>

E_prune ==
  \E id \in EngineIds :
    /\ engine' = Engine_prune(engine, {id})
    /\ UNCHANGED <<wall, othersE>>

E_clearQueue ==
  /\ engine' = Engine_clearQueue(engine)
  /\ UNCHANGED <<wall, othersE>>

E_tick ==
  /\ wall < MaxWall
  /\ NextTimer(engine, wall) = {}
  /\ wall' = wall + 1
  /\ engine' = Engine_tick(engine)
  /\ UNCHANGED othersE

\* onChunkStart and onChunkEnd are null: only the engine's own part runs
E_timer ==
  \E t \in NextTimer(engine, wall) :
    /\ engine' = Engine_fire(engine, t)
    /\ UNCHANGED <<wall, othersE>>

NextEngine ==
  \/ E_init \/ E_enqueue \/ E_schedule \/ E_pause \/ E_resume
  \/ E_stop \/ E_prune \/ E_clearQueue \/ E_tick \/ E_timer

SpecEngine == InitEngine /\ [][NextEngine]_vars

(***************************************************************************)
(* SpecPool: the key pool on its own.  The keys and the limit are chosen   *)
(* at the start; then the pool is read (getBestKey), the best key is used  *)
(* (recordKeyUsage(getBestKey().key)) and time passes, in any order.       *)
(***************************************************************************)
ClockSteps == {20000, 30000}     \* ms between two events of the pool

othersP == <<engine, wall, player, app, split>>

InitPool ==
  /\ \E keys \in {<<"k1">>, <<"k1", "k2">>}, rpm \in 1..MaxRpmLimit :
       pool = NewPool(keys, rpm)
  /\ now = 0
  /\ engine = NewEngine(FALSE, FALSE)
  /\ wall = 0
  /\ player = NewPlayer
  /\ split = NoSplit
  /\ app = NewApp

P_tick ==
  \E d \in ClockSteps :
    /\ now + d <= MaxNow
    /\ now' = now + d
    /\ UNCHANGED <<pool, othersP>>

P_read ==
  /\ pool' = PoolAfterRead(pool, now)
  /\ UNCHANGED <<now, othersP>>

\* the counts and waitTimes a read at n reports, per key
ReportedCounts(p, n) ==
  [k \in Keys |-> getKeyStatus(k, n, p.history[k], p.rpmLimit).count]
ReportedWaits(p, n) ==
  [k \in Keys |-> getKeyStatus(k, n, p.history[k], p.rpmLimit).waitTime]

P_use ==
  /\ Len(pool.uses) < MaxUses
  /\ Len(pool.apiKeys) > 0
  /\ LET best == getBestKey(pool, now)
         read == PoolAfterRead(pool, now)
         pick == [ key |-> best.key,
                   counts |-> ReportedCounts(pool, now),
                   waits |-> ReportedWaits(pool, now) ]
     IN pool' = [recordKeyUsage(read, best.key, now) EXCEPT
                   !.picks = Append(@, pick)]
  /\ UNCHANGED <<now, othersP>>

NextPool == P_tick \/ P_read \/ P_use

SpecPool == InitPool /\ [][NextPool]_vars

\* the state is the one a getBestKey() call has just left
FreshRead ==
  /\ pool.best.key # NoKey
  /\ pool.readAt = now
  /\ pool.readUses = Len(pool.uses)

\* the uses of key recorded less than a window before n
UsesInWindow(key, n) ==
  {i \in 1..Len(pool.uses) :
     pool.uses[i].key = key /\ n - pool.uses[i].at < RATE_WINDOW_MS}

(***************************************************************************)
(* C7.  Single credential, limit L, window W: a bestCredential() read      *)
(* reports waitTime > 0 when L (or more) uses were recorded within the     *)
(* last W, and waitTime = 0 as soon as fewer than L of the recorded uses   *)
(* are within W (one of L timestamps has aged out, no further use).        *)
(***************************************************************************)
C7_WaitWhileSaturated ==
  (FreshRead /\ Len(pool.apiKeys) = 1)
    => ((pool.best.waitTime > 0)
          <=> (Cardinality(UsesInWindow(pool.best.key, now)) >= pool.rpmLimit))

\* L uses were recorded, one of them has aged out, and the read says 0
C7_Witness ==
  /\ FreshRead
  /\ Len(pool.apiKeys) = 1
  /\ Len(pool.uses) = pool.rpmLimit
  /\ Cardinality(UsesInWindow(pool.best.key, now)) = pool.rpmLimit - 1
  /\ pool.best.waitTime = 0

(***************************************************************************)
(* C8.  Two credentials.  The picks of repeated                            *)
(* recordUse(bestCredential().credential): pick i sees equal loads, and    *)
(* from then on nothing but the picks changes the loads.                   *)
(***************************************************************************)
LoadsAfter(pk) == [pk.counts EXCEPT ![pk.key] = @ + 1]
EqualLoads(pk) == pk.counts["k1"] = pk.counts["k2"]
NoWait(pk) == \A k \in Keys : pk.waits[k] = 0
Follows(i) == pool.picks[i].counts = LoadsAfter(pool.picks[i - 1])

\* C8 as stated: once both credentials have the same load (saturated or
\* not), the next pick is the other credential
C8_AlternateAlways ==
  Len(pool.apiKeys) = 2 =>
    \A i \in 1..(Len(pool.picks) - 1) :
      (EqualLoads(pool.picks[i]) /\ Follows(i + 1))
        => pool.picks[i + 1].key # pool.picks[i].key

\* C8 amended: once both credentials have the same load, the picks
\* alternate strictly for as long as both credentials are below the limit
\* (waitTime 0) at every pick and no timestamp ages out between the picks
C8_AlternateBelowLimit ==
  Len(pool.apiKeys) = 2 =>
    \A i, j \in 1..Len(pool.picks) :
      (/\ i < j
       /\ EqualLoads(pool.picks[i])
       /\ \A k \in i..j : NoWait(pool.picks[k])
       /\ \A k \in (i + 1)..j : Follows(k))
        => pool.picks[j].key # pool.picks[j - 1].key

\* three picks k1, k2, k1 from equal loads, below the limit
C8_Witness ==
  /\ Len(pool.apiKeys) = 2
  /\ Len(pool.picks) >= 3
  /\ EqualLoads(pool.picks[1])
  /\ \A k \in 1..3 : NoWait(pool.picks[k])
  /\ Follows(2) /\ Follows(3)
  /\ pool.picks[3].key = pool.picks[1].key

(***************************************************************************)
(* C9.  bestCredential() returns a credential whose (waitTime, load) is    *)
(* lexicographically minimal over the configured credentials; it never     *)
(* returns one with waitTime > 0 while another has waitTime = 0.           *)
(***************************************************************************)
LexLeq(a, b) ==
  \/ a.waitTime < b.waitTime
  \/ (a.waitTime = b.waitTime /\ a.count <= b.count)

C9_BestIsMinimal ==
  FreshRead =>
    \A i \in 1..Len(pool.apiKeys) :
      LET st == getKeyStatus(pool.apiKeys[i], now,
                             pool.history[pool.apiKeys[i]], pool.rpmLimit)
      IN /\ LexLeq(pool.best, st)
         /\ (st.waitTime = 0 => pool.best.waitTime = 0)

\* the best credential is the second one: it waits less although it carries
\* the larger load
C9_Witness ==
  /\ FreshRead
  /\ Len(pool.apiKeys) = 2
  /\ pool.best.key = "k2"
  /\ pool.best.waitTime > 0
  /\ pool.best.count > Len(pool.history["k1"])

(***************************************************************************)
(* C3.  If schedule(A) is followed by schedule(B) with no stop() between   *)
(* them and the clock has not passed the cursor when B is scheduled        *)
(* (clockAt <= cursorAt), then B starts exactly where A ends:              *)
(* B.start = A.start + A.dur.                                              *)
(***************************************************************************)
C3_BackToBack ==
  \A i \in 1..(Len(engine.sources) - 1) :
    LET A == engine.sources[i]
        B == engine.sources[i + 1]
    IN (A.epoch = B.epoch /\ B.clockAt <= B.cursorAt)
         => B.start = A.start + A.dur

\* B scheduled later than A, exactly when the clock has reached the cursor
C3_Witness ==
  \E i \in 1..(Len(engine.sources) - 1) :
    LET A == engine.sources[i]
        B == engine.sources[i + 1]
    IN /\ A.epoch = B.epoch
       /\ B.clockAt = B.cursorAt
       /\ B.clockAt > A.clockAt
       /\ B.start = A.start + A.dur

(***************************************************************************)
(* C4.  With no stop() between them, the playback intervals                *)
(* [start, start + dur) of successive schedule calls are disjoint and in   *)
(* call order, whatever was called and however much time passed between.   *)
(***************************************************************************)
C4_NoOverlap ==
  \A i, j \in 1..Len(engine.sources) :
    (i < j /\ engine.sources[i].epoch = engine.sources[j].epoch)
      => engine.sources[i].start + engine.sources[i].dur
           <= engine.sources[j].start

\* the second segment arrived late: the clock had passed the cursor
C4_Witness ==
  /\ Len(engine.sources) >= 2
  /\ engine.sources[1].epoch = engine.sources[2].epoch
  /\ engine.sources[2].clockAt > engine.sources[2].cursorAt
  /\ engine.sources[2].start > engine.sources[1].start + engine.sources[1].dur

(***************************************************************************)
(* C5.  After stop(), and until init() or resume() is called, schedule(id) *)
(* of an id that was in the queue at the stop returns false and schedules  *)
(* nothing.                                                                *)
(***************************************************************************)
C5_InertAfterStop ==
  [][\A id \in engine.inertIds :
       engine' = Engine_schedule(engine, id, wall)
         => /\ ~Engine_scheduleResult(engine, id)
            /\ engine'.sources = engine.sources]_vars

(***************************************************************************)
(* C6.  A stop() that follows enqueue and schedule calls only (the context *)
(* was not suspended while time passed: the audio clock is the wall clock) *)
(* leaves the cursor at 0, no source pending or running and no chunk-start *)
(* / chunk-end timer armed.                                                *)
(***************************************************************************)
C6_HardStop ==
  [][(/\ engine.hasCtx
      /\ engine.currentTime = wall
      /\ engine' = Engine_stop(engine))
       => /\ engine'.nextStartTime = 0
          /\ engine'.timers = {}
          /\ \A h \in DOMAIN engine'.sources : ~Live(engine', h)]_vars

(***************************************************************************)
(* Spec: the App.  The user clicks Generate (shown while no run is         *)
(* generating) and Cancel (shown while one is); the worker, the endpoint   *)
(* and the timers complete what the runs await, in any order.  Date.now()  *)
(* advances with the delays the runs await.                                *)
(***************************************************************************)
othersA == <<engine, wall, player, split>>

AppState == [app |-> app, pool |-> pool]

InitApp ==
  /\ engine = NewEngine(FALSE, FALSE)
  /\ wall = 0
  /\ player = NewPlayer
  /\ split = NoSplit
  /\ \E keys \in {<<"k1">>, <<"k1", "k2">>} :
       pool = NewPool(keys, MaxRpmLimit)
  /\ now = 0
  /\ app = NewApp

\* handleGenerate() up to await workerRpc('SPLIT_TEXT')
A_generate ==
  /\ app.status # "GENERATING"
  /\ app.nRuns < MaxRuns
  /\ Len(pool.apiKeys) > 0
  /\ LET r == app.nRuns + 1
     IN /\ app' = [app EXCEPT !.status = "GENERATING", !.error = "",
                              !.processedChunks = 0, !.activeKeyIndex = 0,
                              !.pcmChunks = <<>>, !.audioUrl = NoRun,
                              !.abortController = r,
                              !.message = "Analyzing",
                              !.nRuns = r,
                              !.runs[r].pc = "split"]
        /\ pool' = [pool EXCEPT !.activeKey = NoKey]
  /\ UNCHANGED <<now, othersA>>

\* handleStop()
A_stop ==
  /\ app.status = "GENERATING"
  /\ app' = [app EXCEPT
               !.aborted = IF app.abortController # NoRun
                             THEN [@ EXCEPT ![app.abortController] = TRUE]
                             ELSE @,
               !.status = "IDLE", !.message = "Stopped",
               !.activeKeyIndex = 0]
  /\ UNCHANGED <<pool, now, othersA>>

\* the worker answers SPLIT_TEXT: the segment loop is entered
A_splitDone(r) ==
  /\ app.runs[r].pc = "split"
  /\ LET S == Run_loop([AppState EXCEPT !.app.runs[r].i = 0], r, now)
     IN app' = S.app /\ pool' = S.pool
  /\ UNCHANGED <<now, othersA>>

\* the 200 ms timer of the pre-wait fires: bestKeyData = getBestKey()
A_pollDone(r) ==
  /\ app.runs[r].pc = "poll"
  /\ DueFirst(app, r)
  /\ \E t \in PollFireTimes(app, pool, r, now) :
       /\ now' = t
       /\ LET S == Run_preWait([AppState EXCEPT
                                  !.pool = PoolAfterRead(@, now'),
                                  !.app.runs[r].polls =
                                     IF t = FireTime(app, r, now)
                                       THEN @ + 1 ELSE @], r, now')
          IN app' = S.app /\ pool' = S.pool
  /\ UNCHANGED othersA

\* the endpoint answers with audio: the client returns, handleGenerate goes
\* on to await workerRpc('PROCESS_PCM')
A_success(r) ==
  /\ app.runs[r].pc = "request"
  /\ LET S0 == [AppState EXCEPT !.app.runs[r].hits = 0,
                                !.app.runs[r].call = "returned"]
         S == IF app.aborted[r]
                THEN Run_throw(S0, r, TRUE, "")
                ELSE [S0 EXCEPT !.app.runs[r].pc = "decode"]
     IN app' = S.app /\ pool' = S.pool
  /\ UNCHANGED <<now, othersA>>

\* the endpoint answers 429 / 503: the cool-down countdown starts
A_rateLimited(r) ==
  /\ app.runs[r].pc = "request"
  /\ app.failures < MaxFailures
  /\ \E hint \in RetryHints, jitter \in JitterMs :
       LET S == Client_onRateLimit(
                  [AppState EXCEPT !.app.failures = @ + 1], r, now,
                  hint, jitter)
       IN app' = S.app /\ pool' = S.pool
  /\ UNCHANGED <<now, othersA>>

\* await delay(1000) of the countdown ends
A_cooldownTick(r) ==
  /\ app.runs[r].pc = "cooldown"
  /\ DueFirst(app, r)
  /\ now' = FireTime(app, r, now)
  /\ LET S == Client_countdownStep(AppState, r, now')
     IN app' = S.app /\ pool' = S.pool
  /\ UNCHANGED othersA

\* await delay(2000) of the verifying phase ends: continue
A_verifyDone(r) ==
  /\ app.runs[r].pc = "verify"
  /\ DueFirst(app, r)
  /\ now' = FireTime(app, r, now)
  /\ LET S == Client_attempt(AppState, r, now')
     IN app' = S.app /\ pool' = S.pool
  /\ UNCHANGED othersA

\* the request fails with an error that is neither 429 / 503 nor 4xx
A_transient(r) ==
  /\ app.runs[r].pc = "request"
  /\ app.failures < MaxFailures
  /\ LET S == Client_retryOrGiveUp(
                [AppState EXCEPT !.app.failures = @ + 1], r, now, "Transient")
     IN app' = S.app /\ pool' = S.pool
  /\ UNCHANGED <<now, othersA>>

\* await delay(backoff) ends
A_backoffDone(r) ==
  /\ app.runs[r].pc = "backoff"
  /\ DueFirst(app, r)
  /\ now' = FireTime(app, r, now)
  /\ LET S == Client_attempt(AppState, r, now')
     IN app' = S.app /\ pool' = S.pool
  /\ UNCHANGED othersA

\* the request fails with 400 / 403 / 404: break, throw
A_clientError(r) ==
  /\ app.runs[r].pc = "request"
  /\ app.failures < MaxFailures
  /\ LET S == Client_onClientError(
                [AppState EXCEPT !.app.failures = @ + 1], r, now)
     IN app' = S.app /\ pool' = S.pool
  /\ UNCHANGED <<now, othersA>>

\* the worker answers PROCESS_PCM: the segment is stored, the loop goes on
A_decodeDone(r) ==
  /\ app.runs[r].pc = "decode"
  /\ LET i == app.runs[r].i
         S == Run_loop([AppState EXCEPT
                          !.app.pcmChunks = Append(@, <<r, i>>),
                          !.app.processedChunks = i + 1,
                          !.app.runs[r].i = i + 1], r, now)
     IN app' = S.app /\ pool' = S.pool
  /\ UNCHANGED <<now, othersA>>

\* the worker answers EXPORT_WAV
A_exportDone(r) ==
  /\ app.runs[r].pc = "export"
  /\ app' = [app EXCEPT !.audioUrl = r, !.status = "SUCCESS",
                        !.message = "", !.activeKeyIndex = 0,
                        !.abortController = NoRun,
                        !.runs[r].pc = "done"]
  /\ UNCHANGED <<pool, now, othersA>>

Next ==
  \/ A_generate
  \/ A_stop
  \/ \E r \in Runs :
       \/ A_splitDone(r)
       \/ A_pollDone(r)
       \/ A_success(r)
       \/ A_rateLimited(r)
       \/ A_cooldownTick(r)
       \/ A_verifyDone(r)
       \/ A_transient(r)
       \/ A_backoffDone(r)
       \/ A_clientError(r)
       \/ A_decodeDone(r)
       \/ A_exportDone(r)

Spec == InitApp /\ [][Next]_vars

\* the runs whose request to the endpoint has not been answered
InFlight == {r \in Runs : app.runs[r].pc = "request"}

(***************************************************************************)
(* C1: at every moment at most one synthesis request is in flight, runs    *)
(* that were stopped or cancelled included.                                *)
(***************************************************************************)
C1_AtMostOneInFlight == Cardinality(InFlight) <= 1

(***************************************************************************)
(* C10: for every synthesize call that is over, the number of timestamps   *)
(* it appended to the ledgers equals the number of requests it sent.       *)
(***************************************************************************)
C10_UsesEqualSends ==
  \A r \in Runs :
    app.runs[r].call \in {"returned", "failed"}
      => app.runs[r].recorded = app.runs[r].sent

(***************************************************************************)
(* SpecPlayer: the useBookPlayer hook and its AudioEngine.  The caller of  *)
(* the hook calls start, pause, resume and stop in any order; the worker   *)
(* answers its messages in order; fetches settle with audio or an error;   *)
(* the timers of the engine fire the chunk-start and chunk-end callbacks.  *)
(* Every handler is followed by the render it causes and the fetch effect  *)
(* of that render.                                                         *)
(***************************************************************************)
othersH == <<pool, now, app, split>>

Hook == [player |-> player, engine |-> engine]

InitPlayer ==
  /\ \E susp \in BOOLEAN : engine = NewEngine(TRUE, susp)
  /\ wall = 0
  /\ player = NewPlayer
  /\ split = NoSplit
  /\ pool = NewPool(<<>>, 1)
  /\ now = 0
  /\ app = NewApp

\* engine.init() awaits ctx.resume() when the context is suspended; on a
\* running context the rest of the caller follows in the same task
InitAwaits(e) == e.hasCtx /\ e.suspended

Clicked(p) == [p EXCEPT !.clicks = @ + 1]

\* start(text, voice, instruction) with a text that is not blank
H_start ==
  /\ player.clicks < MaxClicks
  /\ player.starts < MaxSessions
  /\ LET p == [Clicked(player) EXCEPT !.starts = @ + 1]
     IN IF InitAwaits(engine)
          THEN /\ player' = [p EXCEPT !.pending =
                               Append(@, [kind |-> "start",
                                          cl |-> Closure(player)])]
               /\ engine' = engine
          ELSE LET H == Player_start([player |-> p, engine |-> engine])
               IN player' = H.player /\ engine' = H.engine
  /\ UNCHANGED <<wall, othersH>>

\* resume()
H_resume ==
  /\ player.clicks < MaxClicks
  /\ IF InitAwaits(engine)
       THEN /\ player' = [Clicked(player) EXCEPT !.pending =
                            Append(@, [kind |-> "resume",
                                       cl |-> Closure(player)])]
            /\ engine' = engine
       ELSE LET H == Player_resume([player |-> Clicked(player),
                                    engine |-> engine],
                                   Closure(player), wall)
            IN player' = H.player /\ engine' = H.engine
  /\ UNCHANGED <<wall, othersH>>

\* ctx.resume() of engine.init() settles: the oldest waiting call goes on
H_initDone ==
  /\ player.pending # <<>>
  /\ LET c == Head(player.pending)
         H0 == [player |-> [player EXCEPT !.pending = Tail(@)],
                engine |-> engine]
         H == IF c.kind = "start"
                THEN Player_start(H0)
                ELSE Player_resume(H0, c.cl, wall)
     IN player' = H.player /\ engine' = H.engine
  /\ UNCHANGED <<wall, othersH>>

H_pause ==
  /\ player.clicks < MaxClicks
  /\ LET H == Player_pause([player |-> Clicked(player), engine |-> engine])
     IN player' = H.player /\ engine' = H.engine
  /\ UNCHANGED <<wall, othersH>>

H_stop ==
  /\ player.clicks < MaxClicks
  /\ LET H == Player_stop([player |-> Clicked(player), engine |-> engine])
     IN player' = H.player /\ engine' = H.engine
  /\ UNCHANGED <<wall, othersH>>

H_splitComplete ==
  /\ player.worker # <<>>
  /\ Head(player.worker).type = "SPLIT_TEXT"
  /\ LET H == Player_onSplitComplete(Hook, NumChunks)
     IN player' = H.player /\ engine' = H.engine
  /\ UNCHANGED <<wall, othersH>>

H_decodeComplete ==
  /\ player.worker # <<>>
  /\ Head(player.worker).type = "DECODE_AUDIO"
  /\ LET H == Player_onDecodeComplete(Hook, Head(player.worker).id, wall)
     IN player' = H.player /\ engine' = H.engine
  /\ UNCHANGED <<wall, othersH>>

\* the worker fails to decode the audio and posts ERROR
H_workerError ==
  /\ player.worker # <<>>
  /\ Head(player.worker).type = "DECODE_AUDIO"
  /\ player.failures < MaxFailures
  /\ LET H == Player_onWorkerError(Hook)
     IN player' = H.player /\ engine' = H.engine
  /\ UNCHANGED <<wall, othersH>>

H_fetched ==
  /\ \E id \in player.fetches :
       LET H == Player_onFetched(Hook, id)
       IN player' = H.player /\ engine' = H.engine
  /\ UNCHANGED <<wall, othersH>>

H_fetchError ==
  /\ player.failures < MaxFailures
  /\ \E id \in player.fetches, apiKeyError \in BOOLEAN :
       LET H == Player_onFetchError(Hook, id, apiKeyError)
       IN player' = H.player /\ engine' = H.engine
  /\ UNCHANGED <<wall, othersH>>

\* a timer of the engine fires: the engine's own part, then the callback
H_timer ==
  /\ \E t \in NextTimer(engine, wall) :
       LET H0 == [player |-> player, engine |-> Engine_fire(engine, t)]
           H == IF t.kind = "start"
                  THEN Player_onChunkStart(H0, t.id)
                  ELSE Player_onChunkEnd(H0, t.id, wall)
       IN player' = H.player /\ engine' = H.engine
  /\ UNCHANGED <<wall, othersH>>

H_tick ==
  /\ wall < MaxWall
  /\ NextTimer(engine, wall) = {}
  /\ wall' = wall + 1
  /\ engine' = Engine_tick(engine)
  /\ UNCHANGED <<player, othersH>>

NextPlayer ==
  \/ H_start
  \/ H_resume
  \/ H_initDone
  \/ H_pause
  \/ H_stop
  \/ H_splitComplete
  \/ H_decodeComplete
  \/ H_workerError
  \/ H_fetched
  \/ H_fetchError
  \/ H_timer
  \/ H_tick

SpecPlayer == InitPlayer /\ [][NextPlayer]_vars

(***************************************************************************)
(* C2: segments are handed to schedule() in text order: when a segment is  *)
(* handed to schedule() for the first time, every segment that precedes it *)
(* in the text of its session has been handed to schedule() before.        *)
(***************************************************************************)
C2_ScheduledInTextOrder ==
  \A p \in 1..Len(player.handed) :
    \A j \in 0..(player.handed[p][2] - 1) :
      \E q \in 1..(p - 1) :
        player.handed[q] = <<player.handed[p][1], j>>

\* resume() has handed two segments of a session to schedule(), and both
\* were bound to the clock
C2_Witness ==
  /\ Len(player.handed) >= 2
  /\ player.handed[1][2] = 0
  /\ player.handed[2] = <<player.handed[1][1], 1>>
  /\ Len(engine.sources) >= 2
  /\ player.status = "PLAYING"

(***************************************************************************)
(* SpecPoolSkip: the key pool with the Skip Key button.  The provider of   *)
(* a run picks and uses the best key and makes it the active one;          *)
(* handleSkipKey fills the ledger of the active key.  Every use reads the  *)
(* pool (and purges the ledgers) first; reads without a use are left to    *)
(* SpecPool.                                                               *)
(***************************************************************************)
MaxSkips == 1             \* keys that handleSkipKey is called on, once each

Skips(p) == Cardinality({k \in Keys : p.skipAt[k] # NoSkip})

\* dynamicKeyProvider(): getBestKey, activeKeyRef, recordKeyUsage
K_use ==
  /\ Len(pool.uses) < MaxUses
  /\ Len(pool.apiKeys) > 0
  /\ pool' = dynamicKeyProvider(AppState, 1, now, FALSE).pool
  /\ UNCHANGED <<now, othersP>>

\* handleSkipKey()
K_skip ==
  /\ Len(pool.apiKeys) > 1
  /\ pool.activeKey # NoKey
  /\ Skips(pool) < MaxSkips
  /\ pool.skipAt[pool.activeKey] = NoSkip
  /\ pool' = handleSkipKey(pool, now)
  /\ UNCHANGED <<now, othersP>>

NextPoolSkip == P_tick \/ K_use \/ K_skip

SpecPoolSkip == InitPool /\ [][NextPoolSkip]_vars

\* the status a read at this moment reports for key k
StatusNow(k) == getKeyStatus(k, now, pool.history[k], pool.rpmLimit)

Configured(k) == \E i \in 1..Len(pool.apiKeys) : pool.apiKeys[i] = k

\* key k was skipped less than a window ago
InSkipWindow(k) ==
  /\ pool.skipAt[k] # NoSkip
  /\ now - pool.skipAt[k] < RATE_WINDOW_MS

MaxCallFailures == 5      \* failing requests of the call
MaxRateLimits == 2        \* rate limit errors among them
MaxEdits == 1             \* skips, saves and disconnects during the call

KeyLists == {<<"k1">>, <<"k2">>, <<"k1", "k2">>}

\* <<hint, jitter>> of the rate limit errors of the call: no hint with the
\* least jitter, a hint with the most
RateLimitInputs == {<<0, 0>>, <<5, 2000>>}

\* The errors of the endpoint: the status of the response, and the status
\* codes that the message of the error mentions (the message of an error of
\* the SDK carries the code of the response).
EndpointErrors ==
  {[status |-> c, mentions |-> {c}] : c \in {429, 503, 500, 400, 403, 404}}

\* the catch block classifies the error: isRateLimit first, then the test of
\* "Don't retry client errors"
ErrorKind(err) ==
  IF err.status = 429 \/ 429 \in err.mentions \/ err.status = 503
    THEN "RateLimit"
  ELSE IF \/ err.status = 400
          \/ err.status = 403
          \/ err.mentions \cap {400, 403, 404} # {}
    THEN "Client"
  ELSE "Transient"

InitClient ==
  /\ engine = NewEngine(FALSE, FALSE)
  /\ wall = 0
  /\ player = NewPlayer
  /\ split = NoSplit
  /\ \E keys \in {<<"k1">>, <<"k1", "k2">>} :
       pool = NewPool(keys, MaxRpmLimit)
  /\ now = 0
  /\ app = [NewApp EXCEPT !.status = "GENERATING", !.abortController = 1,
                          !.message = "Analyzing", !.nRuns = 1,
                          !.runs[1].pc = "split"]

\* the endpoint answers 429 / 503
G_rateLimited ==
  /\ app.runs[1].pc = "request"
  /\ app.failures < MaxCallFailures
  /\ app.runs[1].hits < MaxRateLimits
  /\ \E err \in EndpointErrors : ErrorKind(err) = "RateLimit"
  /\ \E in \in RateLimitInputs :
       LET S == Client_onRateLimit(
                  [AppState EXCEPT !.app.failures = @ + 1], 1, now,
                  in[1], in[2])
       IN app' = S.app /\ pool' = S.pool
  /\ UNCHANGED <<now, othersA>>

\* the request fails with an error that is neither 429 / 503 nor 4xx
G_transient ==
  /\ app.runs[1].pc = "request"
  /\ app.failures < MaxCallFailures
  /\ \E err \in EndpointErrors : ErrorKind(err) = "Transient"
  /\ LET S == Client_retryOrGiveUp(
                [AppState EXCEPT !.app.failures = @ + 1], 1, now, "Transient")
     IN app' = S.app /\ pool' = S.pool
  /\ UNCHANGED <<now, othersA>>

\* the request fails with 400 / 403 / 404
G_clientError ==
  /\ app.runs[1].pc = "request"
  /\ app.failures < MaxCallFailures
  /\ \E err \in EndpointErrors : ErrorKind(err) = "Client"
  /\ LET S == Client_onClientError(
                [AppState EXCEPT !.app.failures = @ + 1], 1, now)
     IN app' = S.app /\ pool' = S.pool
  /\ UNCHANGED <<now, othersA>>

\* The delays of the client fire until Date.now() reaches MaxNow.
G_cooldownTick == FireTime(app, 1, now) <= MaxNow /\ A_cooldownTick(1)

G_verifyDone == FireTime(app, 1, now) <= MaxNow /\ A_verifyDone(1)

G_backoffDone == FireTime(app, 1, now) <= MaxNow /\ A_backoffDone(1)

\* The user edits the pool before the call starts or while the client waits
\* after one of its first MaxFailures failures; an edit made while a request
\* is in flight is the same edit made right after the answer, since
\* Date.now() is that of the last timer.
EditPoint ==
  /\ app.runs[1].pc \in {"split", "cooldown", "verify", "backoff"}
  /\ app.failures <= MaxFailures

\* the user clicks Skip Key
G_skip ==
  /\ app.status = "GENERATING"
  /\ EditPoint
  /\ Len(pool.apiKeys) > 1
  /\ pool.activeKey # NoKey
  /\ app.edits < MaxEdits
  /\ pool' = handleSkipKey(pool, now)
  /\ app' = [app EXCEPT !.edits = @ + 1, !.message = "Skipping"]
  /\ UNCHANGED <<now, othersA>>

\* handleSaveApiKeys(keysString) with at least one key in the string
G_saveKeys ==
  /\ app.edits < MaxEdits
  /\ EditPoint
  /\ \E keys \in KeyLists :
       /\ keys # pool.apiKeys
       /\ pool' = [pool EXCEPT !.apiKeys = keys]
  /\ app' = [app EXCEPT !.edits = @ + 1]
  /\ UNCHANGED <<now, othersA>>

\* handleDisconnectApiKey()
G_disconnect ==
  /\ app.edits < MaxEdits
  /\ EditPoint
  /\ pool.apiKeys # <<>>
  /\ pool' = [pool EXCEPT !.apiKeys = <<>>]
  /\ app' = [app EXCEPT !.edits = @ + 1]
  /\ UNCHANGED <<now, othersA>>

NextClient ==
  \/ A_splitDone(1)
  \/ A_success(1)
  \/ G_rateLimited
  \/ G_cooldownTick
  \/ G_verifyDone
  \/ G_transient
  \/ G_backoffDone
  \/ G_clientError
  \/ G_skip
  \/ G_saveKeys
  \/ G_disconnect

SpecClient == InitClient /\ [][NextClient]_vars

\* the run passes a point at which the client is about to make an attempt:
\* the worker's answer that starts the call, or the end of a verify or
\* backoff delay
AttemptPoint ==
  /\ app.runs[1].pc \in {"split", "verify", "backoff"}
  /\ \/ app'.runs[1].pc # app.runs[1].pc
     \/ app'.runs[1].due # app.runs[1].due

(***************************************************************************)
(* C12: when no key is configured at the moment an attempt is about to be  *)
(* made (at the start of the call, or after the keys were removed during a *)
(* cool-down or backoff wait), the call fails at once with the no-keys     *)
(* error: no request is sent, no backoff is started, and the status is     *)
(* ERROR.                                                                  *)
(***************************************************************************)
C12_NoKeysFailsAtOnce ==
  [][(AttemptPoint /\ pool.apiKeys = <<>>)
       => /\ app'.runs[1].pc = "done"
          /\ app'.runs[1].sent = app.runs[1].sent
          /\ app'.status = "ERROR"
          /\ app'.error = "NoKeys"]_vars

(***************************************************************************)
(* SpecRun: one run of handleGenerate over one key, every request answered *)
(* with audio.  Time passes while the run awaits the worker or the         *)
(* endpoint, and with the 200 ms timer of the pre-wait.                    *)
(***************************************************************************)
InitRun ==
  /\ engine = NewEngine(FALSE, FALSE)
  /\ wall = 0
  /\ player = NewPlayer
  /\ split = NoSplit
  /\ \E rpm \in 1..MaxRpmLimit : pool = NewPool(<<"k1">>, rpm)
  /\ now = 0
  /\ app = [NewApp EXCEPT !.status = "GENERATING", !.abortController = 1,
                          !.message = "Analyzing", !.nRuns = 1,
                          !.runs[1].pc = "split"]

\* the worker or the endpoint takes its time to answer
R_elapse ==
  /\ app.runs[1].pc \in {"split", "request", "decode", "export"}
  /\ \E d \in ClockSteps :
       /\ now + d <= MaxNow
       /\ now' = now + d
  /\ UNCHANGED <<pool, app, othersA>>

NextRun ==
  \/ A_splitDone(1)
  \/ A_pollDone(1)
  \/ A_success(1)
  \/ A_decodeDone(1)
  \/ A_exportDone(1)
  \/ R_elapse

SpecRun == InitRun /\ [][NextRun]_vars

\* the step sends the request of a segment
SendsSegment ==
  /\ app.runs[1].pc \in {"split", "decode", "poll"}
  /\ app'.runs[1].pc = "request"

\* the requests the run has sent in the window that ends now: every call
\* records its key check, then its request
RequestsInWindow(p, n) ==
  Cardinality({j \in 1..Len(p.uses) :
                 j % 2 = 0 /\ InWindow(p.uses[j].at, n)})

\* waitTime of the single key for the ledger p.history at time n
WaitOfKey(p, n) ==
  getKeyStatus(p.apiKeys[1], n, p.history[p.apiKeys[1]], p.rpmLimit).waitTime

(***************************************************************************)
(* C13: with a single key of limit L and no failing request, a request is  *)
(* sent only at a moment at which the ledger of the key gives waitTime 0,  *)
(* so that no more than L requests of the run fall in one window; and a    *)
(* run that reaches a segment while the key has waitTime > 0 announces the *)
(* cool-down and sends nothing until the wait is over (the request is then *)
(* sent from the pre-wait, whose message is the cool-down notification).   *)
(***************************************************************************)
C13_WaitsOutTheWindow ==
  [][/\ SendsSegment
          => /\ WaitOfKey(pool, now') = 0
             /\ RequestsInWindow(pool', now') <= pool.rpmLimit
             /\ app.runs[1].pc = "poll" => app.message = "Cooling"
     /\ (/\ app.runs[1].pc = "decode"
         /\ app.runs[1].i + 1 < NumChunks
         /\ app' # app
         /\ WaitOfKey(pool, now) > 0)
          => /\ app'.runs[1].pc = "poll"
             /\ app'.message = "Cooling"
             /\ app'.runs[1].sent = app.runs[1].sent]_vars

\* the (L+1)-th request has been sent as soon as the wait was over
C13_Witness ==
  /\ app.runs[1].pc = "request"
  /\ app.runs[1].i = pool.rpmLimit
  /\ now = RATE_WINDOW_MS + SafetyMarginMs
  /\ RequestsInWindow(pool, now) = 1

\* the key whose use was recorded last, and the pool as it was when that
\* key was chosen: the ledger without the timestamp of that use
LastUsedKey(p) == p.uses[Len(p.uses)].key

PoolBeforeLastUse(p) ==
  [p EXCEPT !.history[LastUsedKey(p)] = SubSeq(@, 1, Len(@) - 1)]

(***************************************************************************)
(* C14: every attempt of a call, the first one and every retry after a     *)
(* cool-down or a backoff, is sent with the key that getBestKey() gives at *)
(* the moment of the attempt, so that a skip or a change of the configured *)
(* keys made during the wait decides the key of the very next attempt.     *)
(***************************************************************************)
C14_FreshKeyPerAttempt ==
  [][app'.runs[1].sent = app.runs[1].sent + 1
       => /\ pool'.uses[Len(pool'.uses)].at = now'
          /\ getBestKey(PoolBeforeLastUse(pool'), now').key = LastUsedKey(pool')
          /\ pool'.activeKey = LastUsedKey(pool')
          /\ KeyIndex(pool', LastUsedKey(pool')) > 0]_vars

\* the key of the first attempt was skipped during the cool-down and the
\* retry is in flight with the other key
C14_Witness ==
  /\ app.runs[1].pc = "request"
  /\ app.runs[1].attempt = 2
  /\ app.runs[1].lastError = "RateLimit"
  /\ Len(pool.uses) = 3
  /\ pool.uses[2].key # pool.uses[3].key
  /\ pool.skipAt[pool.uses[2].key] > pool.uses[2].at
  /\ pool.skipAt[pool.uses[2].key] < now

NoRateLimit(a) == a.runs[1].hits = 0 /\ a.runs[1].lastError # "RateLimit"

(***************************************************************************)
(* C16: in a call whose requests fail with transient errors only, the      *)
(* failure of attempt number k < 5 is followed by a wait of 1000 * 2^k ms, *)
(* at the end of which the retry is made; the failure of attempt number 5  *)
(* ends the call with that error; the call sends no more than 5 requests   *)
(* and none after it has failed.                                           *)
(***************************************************************************)
C16_BoundedBackoff ==
  [][/\ (app.runs[1].pc = "request" /\ app'.runs[1].pc = "backoff")
          => /\ app.runs[1].attempt < 5
             /\ app'.runs[1].due = now + 1000 * (2 ^ app.runs[1].attempt)
     /\ (app.runs[1].pc = "backoff" /\ app'.runs[1].pc = "request")
          => now' = app.runs[1].due
     /\ (/\ app'.runs[1].call = "failed"
         /\ app'.runs[1].lastError = "Transient"
         /\ NoRateLimit(app'))
          => /\ app'.runs[1].sent = 5
             /\ app'.status = "ERROR"
             /\ app'.error = "Transient"
     /\ NoRateLimit(app') => app'.runs[1].sent <= 5
     /\ app.runs[1].call = "failed"
          => app'.runs[1].sent = app.runs[1].sent]_vars

\* five requests failed with transient errors, 2 + 4 + 8 + 16 seconds of
\* backoff between them, and the call has failed
C16_Witness ==
  /\ app.runs[1].call = "failed"
  /\ app.runs[1].lastError = "Transient"
  /\ app.runs[1].hits = 0
  /\ app.runs[1].sent = 5
  /\ app.failures = 5
  /\ app.edits = 0
  /\ now = 30000

(***************************************************************************)
(* SpecWait: the wait that the client computes from a rate limit error.    *)
(* The first request of the call is answered with a rate limit error whose *)
(* message is any sequence of up to MaxMsgLen pieces.                      *)
(***************************************************************************)
W_rateLimited ==
  /\ app.runs[1].pc = "request"
  /\ \E msg \in Messages, jt \in JitterTenths :
       LET hits == app.runs[1].hits + 1
           total == Penalized(PaddedWait(BaseWaitTime(msg), jt), hits)
       IN app' = [app EXCEPT !.failures = @ + 1,
                             !.runs[1].lastError = "RateLimit",
                             !.runs[1].errorText = msg,
                             !.runs[1].hits = hits,
                             !.runs[1].wait = total,
                             !.runs[1].remaining =
                                CeilDiv(total, CountdownStepMs),
                             !.runs[1].due = now + CountdownStepMs,
                             !.runs[1].pc = "cooldown",
                             !.message = "RateLimit"]
  /\ UNCHANGED <<pool, now, othersA>>

NextWait == A_splitDone(1) \/ W_rateLimited

SpecWait == InitClient /\ [][NextWait]_vars

\* msg[i], ..., msg[j] is a numeral: digits, or digits "." digits
IsNumeral(msg, i, j) ==
  /\ i <= j
  /\ \E d \in i..(j + 1) :
       /\ d # i /\ d # j
       /\ d <= j => msg[d] = "."
       /\ \A k \in (i..j) \ {d} : msg[k] \in {"0", "5"}

\* the <<p, q>> such that msg[p] is "retry in ", msg[q] is "s" and what is
\* between them is a numeral
Hints(msg) ==
  {pq \in (1..Len(msg)) \X (1..Len(msg)) :
     /\ msg[pq[1]] = "retry in "
     /\ msg[pq[2]] = "s"
     /\ IsNumeral(msg, pq[1] + 1, pq[2] - 1)}

\* 1000 times the number that the numeral msg[i], ..., msg[j] writes
NumeralMs(msg, i, j) ==
  IF \E d \in i..j : msg[d] = "."
    THEN LET d == CHOOSE d \in i..j : msg[d] = "."
         IN DigitsValue(msg, i, d) * 1000
            + (DigitsValue(msg, d + 1, j + 1) * 1000) \div (10 ^ (j - d))
    ELSE DigitsValue(msg, i, j + 1) * 1000

(***************************************************************************)
(* C17: the wait of a first rate limit error is                            *)
(*   ceil(base + 5000 + base / 10 + jitter)  with  0 <= jitter < 2000,     *)
(* where base is N * 1000 when the message holds "retry in Ns" (the        *)
(* leftmost one) and 10000 when it holds none.                             *)
(***************************************************************************)
C17_RateLimitWait ==
  (app.runs[1].pc = "cooldown" /\ app.runs[1].hits = 1)
    => LET msg == app.runs[1].errorText
           first == CHOOSE pq \in Hints(msg) :
                      \A o \in Hints(msg) : pq[1] <= o[1]
           base == IF Hints(msg) = {} THEN 10000
                   ELSE NumeralMs(msg, first[1] + 1, first[2] - 1)
           tenths == 10 * base + 50000 + base
       IN /\ 10 * app.runs[1].wait >= tenths
          /\ 10 * (app.runs[1].wait - 1) < tenths + 20000

\* "retry in 5.5s" with the least jitter: 5500 + 5000 + 550
C17_Witness ==
  /\ app.runs[1].pc = "cooldown"
  /\ app.runs[1].hits = 1
  /\ app.runs[1].errorText = <<"retry in ", "5", ".", "5", "s">>
  /\ app.runs[1].wait = 11050

\* totalWaitTime w is twice what some rate limit error of the call gives
\* before the penalty
IsDoubledWait(w) ==
  \E in \in RateLimitInputs : w = 2 * TotalWaitTime(in[1], in[2], 1)

(***************************************************************************)
(* C18: the wait of a rate limit error is doubled exactly when the failure *)
(* before it in the call was a rate limit error too; the wait of the first *)
(* failure of the call, and of a rate limit error that follows a transient *)
(* failure, is not doubled.                                                *)
(***************************************************************************)
C18_DoubledIffConsecutive ==
  [][(app.runs[1].pc = "request" /\ app'.runs[1].pc = "cooldown")
       => (IsDoubledWait(app'.runs[1].wait)
             <=> app.runs[1].lastError = "RateLimit")]_vars

\* after an edit of the pool by the user, getBestKey() at time n gives a free
\* key other than the one the failed attempt was sent with
OtherKeyFree(n) ==
  /\ app.edits > 0
  /\ getBestKey(pool, n).key \notin {NoKey, LastUsedKey(pool)}
  /\ getBestKey(pool, n).waitTime = 0

(***************************************************************************)
(* C19: when a delay of the cool-down countdown ends while, after a skip   *)
(* or a change of the keys, the pool gives a different key that is free,   *)
(* the rest of the countdown is dropped and the retry is sent at once.     *)
(***************************************************************************)
C19_CountdownAbandoned ==
  [][(/\ app.runs[1].pc = "cooldown"
      /\ app'.runs[1].due # app.runs[1].due
      /\ OtherKeyFree(now'))
       => /\ app'.runs[1].pc = "request"
          /\ app'.runs[1].sent = app.runs[1].sent + 1]_vars

(***************************************************************************)
(* SpecFetch: the hook on a text of LongText segments, more than the       *)
(* look-ahead of the fetch effect.                                         *)
(***************************************************************************)
\* the worker answers SPLIT_TEXT with the LongText segments of the text
F_splitComplete ==
  /\ player.worker # <<>>
  /\ Head(player.worker).type = "SPLIT_TEXT"
  /\ LET H == Player_onSplitComplete(Hook, LongText)
     IN player' = H.player /\ engine' = H.engine
  /\ UNCHANGED <<wall, othersH>>

NextFetch ==
  \/ H_start
  \/ H_resume
  \/ H_initDone
  \/ H_pause
  \/ H_stop
  \/ F_splitComplete
  \/ H_decodeComplete
  \/ H_workerError
  \/ H_fetched
  \/ H_fetchError
  \/ H_timer
  \/ H_tick

SpecFetch == InitPlayer /\ [][NextFetch]_vars

\* the segments whose audio is fetched and decoded and that have not started
\* playing
FetchedNotPlayed(p) ==
  {j \in 1..Len(p.chunks) : p.chunks[j].status = "ready"}

(***************************************************************************)
(* C20: a fetch is started only for a segment whose index is within        *)
(* FETCH_WINDOW of the index of the segment that is playing, and at every  *)
(* moment, before the first segment has started playing too, no more than  *)
(* FETCH_WINDOW segments are fetched and not yet played.                   *)
(***************************************************************************)
C20_FetchWithinWindow ==
  Cardinality(FetchedNotPlayed(player)) <= FETCH_WINDOW

(***************************************************************************)
(* C21: when the synthesis of a segment fails, the session status becomes  *)
(* PAUSED or ERROR, the segment is marked error and keeps its error        *)
(* message, and no segment is fetched until the caller resumes or          *)
(* restarts: the step of the failure starts no fetch, a chunk marked error *)
(* stays as it is while its session is shown, and the status leaves the    *)
(* inactive values, or a fetch starts from them, only in a resume() or in  *)
(* the split of a start().                                                 *)
(***************************************************************************)
ActiveStatus == {"PROCESSING", "PLAYING"}

FailsNow(id) ==
  /\ id \in player.fetches
  /\ id \notin player'.fetches
  /\ player'.failures = player.failures + 1

MarkedError(chunks, id) ==
  \A j \in 1..Len(chunks) :
    chunks[j].id = id => chunks[j].status = "error" /\ chunks[j].error # ""

ResumeStep ==
  /\ player'.status = "PLAYING"
  /\ \/ player'.clicks = player.clicks + 1
     \/ Len(player'.pending) < Len(player.pending)

SplitStep == player'.sessions = player.sessions + 1

C21_FailedSegmentPauses ==
  [][ /\ \A id \in ChunkIds :
           FailsNow(id) =>
             /\ player'.status \in {"PAUSED", "ERROR"}
             /\ MarkedError(player'.chunks, id)
             /\ player'.fetches \subseteq player.fetches
      /\ \A j \in 1..Len(player.chunks) :
           (player.chunks[j].status = "error" /\ ~SplitStep) =>
             player'.chunks[j] = player.chunks[j]
      /\ (player.status \notin ActiveStatus /\
          (player'.status \in ActiveStatus \/
           ~(player'.fetches \subseteq player.fetches))) =>
             (ResumeStep \/ SplitStep) ]_vars

\* the first segment failed: it is marked error with its message, the
\* session is paused, and the next segment waits unfetched
C21_Witness ==
  /\ Len(player.chunks) >= 2
  /\ player.chunks[1].status = "error"
  /\ player.chunks[1].error = "Failed"
  /\ player.chunks[2].status = "pending"
  /\ player.status = "PAUSED"
  /\ player.fetches = {}
  /\ player.failures = 1

(***************************************************************************)
(* C22: after the stop signal a cancelled run sends no further synthesis   *)
(* request and stores no further audio: no step of a run whose signal is   *)
(* aborted puts a request of that run in flight or appends a segment of    *)
(* that run to the stored audio.                                           *)
(***************************************************************************)
SendsRequest(r) == app'.runs[r].pc = "request" /\ app.runs[r].pc # "request"

StoresAudio(r) ==
  /\ Len(app'.pcmChunks) > 0
  /\ app'.pcmChunks # app.pcmChunks
  /\ app'.pcmChunks[Len(app'.pcmChunks)][1] = r

C22_CancelHonoured ==
  [][\A r \in Runs :
       app.aborted[r] => ~SendsRequest(r) /\ ~StoresAudio(r)]_vars

\* the two parts of C22 on their own
C22_NoRequestAfterCancel ==
  [][\A r \in Runs : app.aborted[r] => ~SendsRequest(r)]_vars

C22_NoAudioAfterCancel ==
  [][\A r \in Runs : app.aborted[r] => ~StoresAudio(r)]_vars

(***************************************************************************)
(* C23: the status of the session changes only along the transitions of    *)
(* the coordinator state machine: IDLE to PREPARING, PREPARING to          *)
(* PROCESSING, PROCESSING and PLAYING in either direction, PROCESSING or   *)
(* PLAYING to PAUSED and back, these to COMPLETED or ERROR, and any status *)
(* back to IDLE; pause() or resume() in IDLE, PREPARING, COMPLETED or      *)
(* ERROR leaves the status as it is.                                       *)
(***************************************************************************)
Running == {"PREPARING", "PROCESSING", "PLAYING", "PAUSED"}

CoordinatorTransitions ==
  {<<"IDLE", "PREPARING">>, <<"PREPARING", "PROCESSING">>,
   <<"PROCESSING", "PLAYING">>, <<"PLAYING", "PROCESSING">>,
   <<"PROCESSING", "PAUSED">>, <<"PLAYING", "PAUSED">>,
   <<"PAUSED", "PROCESSING">>, <<"PAUSED", "PLAYING">>}
  \cup (Running \X {"COMPLETED", "ERROR"})
  \cup ({"PREPARING", "PROCESSING", "PLAYING", "PAUSED", "COMPLETED",
         "ERROR"} \X {"IDLE"})

C23_StatusTransitions ==
  [][player'.status # player.status =>
       <<player.status, player'.status>> \in CoordinatorTransitions]_vars

\* the second half of C23 on its own: no step takes the status from IDLE,
\* PREPARING, COMPLETED or ERROR to PAUSED or PLAYING
C23_PauseResumeGuarded ==
  [][~(player.status \in {"IDLE", "PREPARING", "COMPLETED", "ERROR"} /\
       player'.status \in {"PAUSED", "PLAYING"})]_vars

(***************************************************************************)
(* SpecSplit: one call of a text splitter.  The text and maxLength are any *)
(* of the inputs below; a step is the entry of the function or one pass of *)
(* its loop.                                                               *)
(***************************************************************************)
Chars == {"a", " ", "\n", ".", ","}

QuoteChars == {"a", " ", ".", "\""}

ScanChars == {"a", " ", "."}

Strings(alphabet, lo, hi) == UNION {[1..n -> alphabet] : n \in lo..hi}

\* short texts over the break characters for every maxLength, and longer
\* texts for a maxLength whose backward scan has two positions
SplitInputs ==
  ((Strings(Chars, 0, MaxTextLen) \cup Strings(QuoteChars, 0, MaxTextLen - 1))
     \X (1..MaxChunkLen))
  \cup (Strings(ScanChars, MaxChunkLen + 3, MaxChunkLen + 4)
          \X {MaxChunkLen + 2})

SplitFunctions ==
  {"splitTextRobust", "splitTextIdeally", "splitTextIdeally_Main"}

InitSplit ==
  /\ engine = NewEngine(FALSE, FALSE)
  /\ wall = 0
  /\ player = NewPlayer
  /\ pool = NewPool(<<>>, 1)
  /\ now = 0
  /\ app = NewApp
  /\ \E fn \in SplitFunctions, in \in SplitInputs :
       split = [NoSplit EXCEPT !.fn = fn, !.text = in[1],
                               !.maxLength = in[2], !.pc = "entry"]

S_enter ==
  /\ split.pc = "entry"
  /\ split' = Split_enter(split)
  /\ UNCHANGED <<engine, wall, player, pool, now, app>>

S_pass ==
  /\ split.pc = "loop"
  /\ split' = Split_pass(split)
  /\ UNCHANGED <<engine, wall, player, pool, now, app>>

NextSplit == S_enter \/ S_pass

SpecSplit == InitSplit /\ [][NextSplit]_vars

\* the string without its whitespace
RECURSIVE Squeeze(_)
Squeeze(s) ==
  IF s = <<>> THEN <<>>
  ELSE IF Head(s) \in Whitespace THEN Squeeze(Tail(s))
  ELSE <<Head(s)>> \o Squeeze(Tail(s))

\* chunks.join('')
RECURSIVE Join(_)
Join(chunks) ==
  IF chunks = <<>> THEN <<>> ELSE Head(chunks) \o Join(Tail(chunks))

Returned == split.pc = "done"

\* the splitters of the two workers
Worker == {"splitTextRobust", "splitTextIdeally"}

(***************************************************************************)
(* C24: for every text whose length is at most maxLength, splitTextRobust  *)
(* and splitTextIdeally return exactly one segment, and that segment is    *)
(* the text with its leading and trailing whitespace removed.              *)
(***************************************************************************)
C24_ShortTextOneTrimmedSegment ==
  (Returned /\ split.fn \in Worker /\ Len(split.text) <= split.maxLength)
    => split.chunks = <<Trim(split.text)>>

\* the first half of C24 on its own: exactly one segment is returned
C24_ShortTextOneSegment ==
  (Returned /\ Len(split.text) <= split.maxLength)
    => Len(split.chunks) = 1

(***************************************************************************)
(* C25: no segment returned by splitTextRobust or splitTextIdeally is      *)
(* longer than maxLength characters.                                       *)
(***************************************************************************)
C25_SegmentsWithinMaxLength ==
  (Returned /\ split.fn \in Worker) =>
    \A k \in 1..Len(split.chunks) : Len(split.chunks[k]) <= split.maxLength

\* C25 for splitTextRobust alone
C25_RobustWithinMaxLength ==
  (Returned /\ split.fn = "splitTextRobust") =>
    \A k \in 1..Len(split.chunks) : Len(split.chunks[k]) <= split.maxLength

(***************************************************************************)
(* C26: for every text, the empty, the blank and the whitespace-prefixed   *)
(* ones included, no segment returned by splitTextRobust or                *)
(* splitTextIdeally is the empty string, and no returned segment begins or *)
(* ends with whitespace.                                                   *)
(***************************************************************************)
Trimmed(s) == s # <<>> /\ s[1] \notin Whitespace /\ s[Len(s)] \notin Whitespace

C26_SegmentsTrimmedNonEmpty ==
  (Returned /\ split.fn \in Worker) =>
    \A k \in 1..Len(split.chunks) : Trimmed(split.chunks[k])

\* C26 for the texts that are longer than maxLength
C26_LongTextSegmentsTrimmed ==
  (Returned /\ split.fn \in Worker /\ Len(split.text) > split.maxLength) =>
    \A k \in 1..Len(split.chunks) : Trimmed(split.chunks[k])

\* C26 for splitTextRobust on the texts that are longer than maxLength
C26_RobustLongTextSegmentsTrimmed ==
  (Returned /\ split.fn = "splitTextRobust"
            /\ Len(split.text) > split.maxLength) =>
    \A k \in 1..Len(split.chunks) : Trimmed(split.chunks[k])

(***************************************************************************)
(* C27: the returned segments, concatenated in order and with all          *)
(* whitespace deleted, are the text with all whitespace deleted: no other  *)
(* character is lost, duplicated or reordered, hard cuts included.         *)
(***************************************************************************)
C27_ContentPreserved ==
  (Returned /\ split.fn \in Worker) =>
    Squeeze(Join(split.chunks)) = Squeeze(split.text)

\* a text without whitespace was split by two hard cuts into three segments
C27_Witness ==
  /\ Returned
  /\ split.fn = "splitTextRobust"
  /\ split.text = <<"a", ".", "a", ",", "a">>
  /\ split.maxLength = 2
  /\ split.chunks = << <<"a", ".">>, <<"a", ",">>, <<"a">> >>

\* a text was cut at a sentence ending by the backward scan
C27_WitnessScan ==
  /\ Returned
  /\ split.fn = "splitTextIdeally"
  /\ Len(split.chunks) = 2
  /\ split.maxLength = MaxChunkLen + 2
  /\ Len(split.chunks[1]) = split.maxLength - 1

(***************************************************************************)
(* C28: segmentation terminates: every pass of the loop that does not end  *)
(* it removes at least one character from the remaining text, and the hard *)
(* cut at maxLength is taken whenever the search finds no break point (it  *)
(* gives -1) or finds one only at index 0.  This is claimed of the three   *)
(* splitters.                                                              *)
(***************************************************************************)
Cuts == split.pc = "loop" /\ Len(split.currentText) > split.maxLength

PassRemoves ==
  split.pc = "loop" =>
    \/ split'.pc = "done"
    \/ Len(split'.currentText) < Len(split.currentText)

HardCutTaken ==
  (Cuts /\ split'.found \in {0 - 1, 0}) =>
    split'.splitIndex = split.maxLength

C28_TerminatesByHardCut == [][PassRemoves /\ HardCutTaken]_vars

\* the first half of C28 on its own, for the three splitters
C28_EveryPassRemoves == [][PassRemoves]_vars

\* C28 for the splitters of the two workers
C28_WorkersTerminateByHardCut ==
  [][split.fn \in Worker => (PassRemoves /\ HardCutTaken)]_vars

(***************************************************************************)
(* C29: splitTextRobust accepts no break candidate of any kind (paragraph, *)
(* sentence, clause or plain whitespace) below 0.3 * maxLength: when every *)
(* break point among the first maxLength characters lies below             *)
(* 0.3 * maxLength, the cut is the hard cut at maxLength.                  *)
(***************************************************************************)
BreakPoints(buf) ==
  {i \in 0..(Len(buf) - 1) :
     \/ Substring(buf, i, i + 2) \in
          {<<"\n", "\n">>, <<",", " ">>, <<";", " ">>}
     \/ i \in SentenceMatches(buf)
     \/ CharAt(buf, i) = " "}

BelowFloor(i, maxLength) == 10 * i < 3 * maxLength

OnlyEarlyBreaks ==
  /\ Cuts
  /\ split.fn = "splitTextRobust"
  /\ \A i \in BreakPoints(Substring(split.currentText, 0, split.maxLength)) :
       BelowFloor(i, split.maxLength)

C29_NoEarlyBreakAccepted ==
  [][OnlyEarlyBreaks => split'.splitIndex = split.maxLength]_vars

(***************************************************************************)
(* SpecLedger: the key pool under reads, uses, Skip Key and the passing of *)
(* time.                                                                   *)
(***************************************************************************)
\* dynamicKeyProvider(), one use fewer than in SpecPoolSkip
L_use == Len(pool.uses) < MaxUses - 1 /\ K_use

NextLedger == P_tick \/ P_read \/ L_use \/ K_skip

SpecLedger == InitPool /\ [][NextLedger]_vars

(***************************************************************************)
(* C30: after every getBestKey() read the ledger of each configured key    *)
(* holds only timestamps t with now - t < RATE_WINDOW_MS: the read removes *)
(* the stale ones, and recordKeyUsage and handleSkipKey put in no          *)
(* timestamp but the current time.                                         *)
(***************************************************************************)
Stamps(h) == {h[i] : i \in 1..Len(h)}

\* a read was made at the current time
ReadNow == pool.best.key # NoKey /\ pool.readAt = now

C30_LedgerWithinWindow ==
  [][/\ ReadNow' =>
          \A k \in Keys :
            Configured(k)' =>
              \A t \in Stamps(pool'.history[k]) : now' - t < RATE_WINDOW_MS
     /\ \A k \in Keys :
          Stamps(pool'.history[k]) \subseteq Stamps(pool.history[k]) \cup {now}
    ]_vars

\* a read has removed the use of k1 made a window ago and kept the one made
\* 30 s ago
C30_Witness ==
  /\ ReadNow
  /\ now = 60000
  /\ \E i \in 1..Len(pool.uses) : pool.uses[i] = [key |-> "k1", at |-> 0]
  /\ pool.history["k1"] = <<30000>>

(***************************************************************************)
(* C31: for every cursor and clock value, schedule() binds the segment at  *)
(* startTime = max(nextStartTime, currentTime + SafetyLead), and leaves    *)
(* nextStartTime = startTime + the duration of the segment.                *)
(***************************************************************************)
Binds == Len(engine'.sources) = Len(engine.sources) + 1

Bound == engine'.sources[Len(engine'.sources)]

C31_StartTimeIsMax ==
  [][Binds =>
       /\ Bound.start = Max(engine.nextStartTime,
                            engine.currentTime + SafetyLead)
       /\ engine'.nextStartTime = Bound.start + Bound.dur]_vars

\* the second half of C31 on its own
C31_CursorBehindSegment ==
  [][Binds => engine'.nextStartTime = Bound.start + Bound.dur]_vars

\* the first half of C31 when the cursor is behind the clock or at least a
\* safety lead ahead of it
C31_StartTimeOffTheLead ==
  [][(Binds /\ (engine.nextStartTime < engine.currentTime \/
                engine.nextStartTime >= engine.currentTime + SafetyLead)) =>
       Bound.start = Max(engine.nextStartTime,
                         engine.currentTime + SafetyLead)]_vars

\* C31 as the code has it: schedule() binds the segment at nextStartTime
\* unless the clock has passed it, and at currentTime + SafetyLead when it
\* has; a cursor less than a safety lead ahead of the clock is kept.  The
\* cursor is left at the end of the segment: it is there while the segment
\* is the last one bound and no stop() has followed.
C31_StartTimeByCursor ==
  /\ \A h \in 1..Len(engine.sources) :
       LET s == engine.sources[h]
       IN s.start = IF s.cursorAt < s.clockAt
                      THEN s.clockAt + SafetyLead
                      ELSE s.cursorAt
  /\ (Len(engine.sources) > 0 /\
      engine.sources[Len(engine.sources)].epoch = engine.stopCount) =>
       engine.nextStartTime = engine.sources[Len(engine.sources)].start
                              + engine.sources[Len(engine.sources)].dur

\* a segment was bound when the clock, already running, had just reached
\* the cursor: it starts at the cursor, without a lead
C31_Witness ==
  \E h \in 1..Len(engine.sources) :
    /\ engine.sources[h].clockAt > 0
    /\ engine.sources[h].clockAt = engine.sources[h].cursorAt
    /\ engine.sources[h].start = engine.sources[h].clockAt
    /\ engine.nextStartTime = engine.sources[h].start + engine.sources[h].dur

(***************************************************************************)
(* SpecPlay: the hook when every fetch and every decode succeeds and the   *)
(* caller calls start and resume only.  The worker, the endpoint, the      *)
(* timers and the clock are not held up; the caller is free to call or not *)
(* to call.  The clock runs long enough for a session to play to its end.  *)
(***************************************************************************)
PlayWall == MaxWall + 3   \* wall clock limit of SpecPlay, units of 100 ms

Y_tick ==
  /\ wall < PlayWall
  /\ NextTimer(engine, wall) = {}
  /\ wall' = wall + 1
  /\ engine' = Engine_tick(engine)
  /\ UNCHANGED <<player, othersH>>

PipelineSteps ==
  \/ H_initDone
  \/ H_splitComplete
  \/ H_decodeComplete
  \/ H_fetched
  \/ H_timer
  \/ Y_tick

NextPlay == H_start \/ H_resume \/ PipelineSteps

SpecPlay == InitPlayer /\ [][NextPlay]_vars /\ WF_vars(PipelineSteps)

\* the segment id was bound to the clock and its end timer has fired
PlayedToEnd(id) ==
  \E h \in 1..Len(engine.sources) :
    /\ engine.sources[h].id = id
    /\ ~engine.sources[h].stopped
    /\ \A t \in engine.timers : t.src # h

\* the last segment of the session shown has finished playing
LastPlayed ==
  /\ player.playQueue # <<>>
  /\ PlayedToEnd(player.playQueue[Len(player.playQueue)])

(***************************************************************************)
(* C32: if every segment is fetched and the caller neither pauses nor      *)
(* stops, then once the last segment has finished playing the status       *)
(* becomes COMPLETED.                                                      *)
(***************************************************************************)
C32_CompletedAfterLast == LastPlayed ~> (player.status = "COMPLETED")

\* no state of the hook has the status COMPLETED
C32_NeverCompleted == player.status # "COMPLETED"

(***************************************************************************)
(* SpecLimit: one synthesize call of which the endpoint rejects every      *)
(* request with 429 / 503.  The countdown and the verifying delay fire;    *)
(* nobody edits the pool.                                                  *)
(***************************************************************************)
MaxHits == 7              \* rate limit errors of the call

Q_rateLimited ==
  /\ app.runs[1].pc = "request"
  /\ app.runs[1].hits < MaxHits
  /\ \E err \in EndpointErrors : ErrorKind(err) = "RateLimit"
  /\ \E in \in RateLimitInputs :
       LET S == Client_onRateLimit(
                  [AppState EXCEPT !.app.failures = @ + 1], 1, now,
                  in[1], in[2])
       IN app' = S.app /\ pool' = S.pool
  /\ UNCHANGED <<now, othersA>>

NextLimit ==
  \/ A_splitDone(1)
  \/ Q_rateLimited
  \/ A_cooldownTick(1)
  \/ A_verifyDone(1)

SpecLimit == InitClient /\ [][NextLimit]_vars

\* the request in flight is answered with a rate limit error
RateLimitedStep ==
  /\ app.runs[1].pc = "request"
  /\ app'.runs[1].lastError = "RateLimit"
  /\ app'.failures = app.failures + 1

(***************************************************************************)
(* C33: a synthesize call whose attempts are all rejected as rate-limited  *)
(* gives up after a bounded number of attempts: once the attempts of the   *)
(* call have reached the maximum attempt count, a rate limit error ends    *)
(* the call.                                                               *)
(***************************************************************************)
C33_RateLimitedCallEnds ==
  [][(RateLimitedStep /\ app.runs[1].attempt >= MAX_RETRIES) =>
        app'.runs[1].call # "active"]_vars

\* the number of requests of a call stays within the maximum attempt count
C33_AttemptsBounded == app.runs[1].sent <= MAX_RETRIES

\* what the code does: a rate limit error never ends the call, whatever the
\* number of attempts made
C33_RateLimitAlwaysRetried ==
  [][RateLimitedStep =>
        /\ app'.runs[1].call = "active"
        /\ app'.runs[1].pc = "cooldown"]_vars

(***************************************************************************)
(* C34: within one session every segment is passed to schedule() at most   *)
(* once: no two buffer sources of the engine were bound for the same       *)
(* segment id.                                                             *)
(***************************************************************************)
C34_ScheduledAtMostOnce ==
  \A h, k \in 1..Len(engine.sources) :
    h # k => engine.sources[h].id # engine.sources[k].id

\* the same, for two sources that are both still to play or playing: the
\* audio of the segment is heard twice
C34_PlayedAtMostOnce ==
  \A h, k \in 1..Len(engine.sources) :
    (/\ h # k
     /\ ~engine.sources[h].stopped
     /\ ~engine.sources[k].stopped) =>
       engine.sources[h].id # engine.sources[k].id

\* The requests of the call sent with key k in the window that ends at n:
\* the first use the call records is the key check of its entry, every
\* later one is the key of an attempt.
SentWithKey(p, k, n) ==
  Cardinality({j \in 2..Len(p.uses) :
                 p.uses[j].key = k /\ InWindow(p.uses[j].at, n)})

(***************************************************************************)
(* C35: for every key, the requests sent with it within the trailing       *)
(* window never exceed the configured limit, first attempts and retries    *)
(* after transient errors and rate limit cool-downs all counted.           *)
(***************************************************************************)
C35_SentWithinLimit ==
  \A k \in Keys : SentWithKey(pool, k, now) <= pool.rpmLimit

\* what the code does: a retry is sent with a key whose ledger is full
RetryWithBusyKey ==
  /\ app.runs[1].pc \in {"verify", "backoff"}
  /\ app'.runs[1].sent = app.runs[1].sent + 1
  /\ getBestKey(pool, now').waitTime > 0

C35_RetriesWaitForKey == [][~RetryWithBusyKey]_vars

\* the step is one of run r
StepOfRun(r) == app'.runs[r] # app.runs[r]

\* a run started after run r has not ended
NewerRunActive(r) ==
  \E q \in Runs :
    /\ q > r
    /\ q <= app.nRuns
    /\ app.runs[q].pc # "done"

(***************************************************************************)
(* C36: a run that was cancelled never alters the state of a run started   *)
(* after it: a step of the cancelled run leaves the status, the abort      *)
(* controller, the progress counter and the stored audio of the newer run  *)
(* as they are.                                                            *)
(***************************************************************************)
C36_CancelledRunIsolated ==
  [][\A r \in Runs :
       (app.aborted[r] /\ StepOfRun(r) /\ NewerRunActive(r)) =>
          /\ app'.status = app.status
          /\ app'.abortController = app.abortController
          /\ app'.processedChunks = app.processedChunks
          /\ app'.pcmChunks = app.pcmChunks]_vars

\* the parts of C36 on their own
C36_StatusKept ==
  [][\A r \in Runs :
       (app.aborted[r] /\ StepOfRun(r) /\ NewerRunActive(r)) =>
          app'.status = app.status]_vars

C36_ControllerKept ==
  [][\A r \in Runs :
       (app.aborted[r] /\ StepOfRun(r) /\ NewerRunActive(r)) =>
          app'.abortController = app.abortController]_vars

C36_AudioKept ==
  [][\A r \in Runs :
       (app.aborted[r] /\ StepOfRun(r) /\ NewerRunActive(r)) =>
          /\ app'.processedChunks = app.processedChunks
          /\ app'.pcmChunks = app.pcmChunks]_vars

\* stop() was the last call of the caller to take effect: only stop() gives
\* the status IDLE once start() was called, and no start() waits for init()
Stopped ==
  /\ player.status = "IDLE"
  /\ player.starts > 0
  /\ \A j \in 1..Len(player.pending) : player.pending[j].kind # "start"

\* the step stores a buffer in the engine's queue
Enqueues == \E id \in ChunkIds : engine'.queue[id] # engine.queue[id]

\* the step binds a buffer source
Schedules == Len(engine'.sources) > Len(engine.sources)

(***************************************************************************)
(* C37: after stop() and until the next start() no audio is enqueued or    *)
(* scheduled for playback, and the completion of a fetch or a decode that  *)
(* was in flight at the stop does not change the segment list of a later   *)
(* session.                                                                *)
(***************************************************************************)
C37_QuietAfterStop ==
  [][(Stopped /\ Stopped') => (~Enqueues /\ ~Schedules)]_vars

\* the second half: a decode completion for a segment of an older session
\* marks no segment of the list shown as ready (the ids of two sessions
\* differ); it does release the fetch lock, so the fetch effect may start
\* the next fetch of the later session
C37_LaterSessionUntouched ==
  [][(/\ player.worker # <<>>
      /\ player'.worker = Tail(player.worker)
      /\ Head(player.worker).type = "DECODE_AUDIO"
      /\ Head(player.worker).id[1] # player.sessions)
        => \A j \in 1..Len(player.chunks) :
             /\ Len(player'.chunks) = Len(player.chunks)
             /\ player'.chunks[j].id = player.chunks[j].id
             /\ player'.chunks[j].status = "ready" =>
                  player.chunks[j].status = "ready"]_vars

\* an older session's decode completion reaches the hook of a later session
C37_StaleDecodeArrives ==
  /\ player.worker # <<>>
  /\ Head(player.worker).type = "DECODE_AUDIO"
  /\ Head(player.worker).id[1] # player.sessions

\* the request in flight fails with an error that is neither a rate limit
\* nor a client error
TransientStep ==
  /\ app.runs[1].pc = "request"
  /\ app'.runs[1].lastError = "Transient"
  /\ app'.failures = app.failures + 1

\* the transient failures of the call, the one of the step included: its
\* failures that were not rate limit errors (a client error ends the call)
TransientFailures == app'.failures - app'.runs[1].hits

(***************************************************************************)
(* C38: the transient-retry budget of a call does not depend on its rate   *)
(* limit hits: the k-th transient failure is followed by the backoff of    *)
(* attempt k, and the call gives up at the transient failure number        *)
(* MAX_RETRIES, whether or not requests were rate-limited before.          *)
(***************************************************************************)
C38_BudgetIgnoresRateLimits ==
  [][TransientStep =>
       IF TransientFailures < MAX_RETRIES
         THEN /\ app'.runs[1].pc = "backoff"
              /\ app'.runs[1].due - now = BackoffMs(TransientFailures)
         ELSE app'.runs[1].call = "failed"]_vars

\* the two parts on their own
C38_SameBudget ==
  [][TransientStep =>
       (app'.runs[1].call = "failed" <=> TransientFailures >= MAX_RETRIES)]_vars

C38_SameBackoff ==
  [][(TransientStep /\ app'.runs[1].pc = "backoff") =>
       app'.runs[1].due - now = BackoffMs(TransientFailures)]_vars

\* what the code does: the budget and the backoff follow the number of
\* requests sent, rate-limited ones included
C38_BudgetCountsEveryAttempt ==
  [][TransientStep =>
       IF app.runs[1].attempt < MAX_RETRIES
         THEN /\ app'.runs[1].pc = "backoff"
              /\ app'.runs[1].due - now = BackoffMs(app.runs[1].attempt)
         ELSE app'.runs[1].call = "failed"]_vars

\* the step starts the fetch of segment id
StartsFetch(id) == id \in player'.fetches /\ id \notin player.fetches

\* a segment in front of segment id in the list is marked as failed
FailedBefore(p, id) ==
  \E j \in 1..Len(p.chunks) :
    /\ j < FindId(p.chunks, id)
    /\ p.chunks[j].status = "error"

(***************************************************************************)
(* C39: a segment whose synthesis failed is not skipped after resume():    *)
(* no later segment is fetched while the failed one is still marked as     *)
(* failed, i.e. before it was fetched again.                               *)
(***************************************************************************)
C39_FailedSegmentNotSkipped ==
  [][\A id \in ChunkIds : StartsFetch(id) => ~FailedBefore(player', id)]_vars

\* what the code does: a segment marked as failed is never fetched again
\* and keeps its mark as long as the list is shown
C39_FailedSegmentStaysFailed ==
  [][\A j \in 1..Len(player.chunks) :
       (/\ player.chunks[j].status = "error"
        /\ Len(player'.chunks) = Len(player.chunks)
        /\ player'.chunks[j].id = player.chunks[j].id)
          => /\ player'.chunks[j].status = "error"
             /\ ~StartsFetch(player.chunks[j].id)]_vars

\* ... and no segment behind it is ever handed to the engine
C39_NothingPlaysBehindFailure ==
  [][\A id \in ChunkIds :
       (FailedBefore(player, id) /\ FindId(player'.chunks, id) # 0
        /\ player'.chunks = player.chunks) =>
          \A h \in 1..Len(engine'.sources) :
            h > Len(engine.sources) => engine'.sources[h].id # id]_vars

\* segment id was handed to the engine and bound to the clock
Scheduled(id) == \E h \in 1..Len(engine.sources) : engine.sources[h].id = id

\* the segments of the session shown
SessionIds == {player.playQueue[j] : j \in 1..Len(player.playQueue)}

(***************************************************************************)
(* C40: if every request succeeds and the caller never pauses or stops,    *)
(* then after start() every segment is eventually fetched, scheduled and   *)
(* played to its end; in particular every segment of the session is        *)
(* eventually handed to the engine.                                        *)
(***************************************************************************)
C40_EverySegmentScheduled ==
  (player.playQueue # <<>>) ~> (\A id \in SessionIds : Scheduled(id))

\* ... and played to its end
C40_EverySegmentPlayed ==
  (player.playQueue # <<>>) ~> (\A id \in SessionIds : PlayedToEnd(id))

\* what the code does: no completion of a decode and no end of a segment
\* hands a segment to the engine; only resume() does
C40_OnlyResumeSchedules ==
  [][Len(engine'.sources) > Len(engine.sources) =>
       /\ player'.status = "PLAYING"
       /\ \/ player'.clicks = player.clicks + 1
          \/ player'.pending = Tail(player.pending)]_vars

\* every segment is ready, none was handed to the engine, and no step of
\* the pipeline other than the clock is left to take
C40_ReadyButStuck ==
  /\ player.playQueue # <<>>
  /\ \A j \in 1..Len(player.chunks) : player.chunks[j].status = "ready"
  /\ engine.sources = <<>>
  /\ player.worker = <<>>
  /\ player.fetches = {}
  /\ player.pending = <<>>

\* in that state the worker, the endpoint and the timers have nothing left
\* to do: only the clock and the caller can take a step, and the clock
\* fires no timer
C40_StuckIsQuiescent ==
  C40_ReadyButStuck =>
    /\ ~ENABLED (H_initDone \/ H_splitComplete \/ H_decodeComplete
                   \/ H_fetched \/ H_timer)
    /\ engine.timers = {}

====
